---- MODULE Spec2Model ----
(***************************************************************************)
(* Model of the TVHeadend scan and reconciliation engine of fptv           *)
(* (src/python/fptv/tvh.py): TVHeadendScanner.scan() and the phases it     *)
(* calls, run against a backend that holds networks, muxes, services,      *)
(* channels and tuner frontends.                                           *)
(***************************************************************************)
EXTENDS Integers, Sequences, FiniteSets, TLC

(***************************************************************************)
(* Bounds of the model.                                                    *)
(***************************************************************************)
MaxMux == 2
MaxSvc == 2
MaxChan == 3
MaxFail == 1
MaxPolls == 1
MaxRf == 38
MaxFe == 2
MaxNode == 2

MuxIds == 1..MaxMux
SvcIds == 1..MaxSvc
ChanIds == 1..MaxChan
FeIds == 1..MaxFe

(***************************************************************************)
(* Names.  A name is a sequence of tokens; the token " " is white space,   *)
(* so that str.strip() is something the model computes.                    *)
(***************************************************************************)
NameA == <<"A">>
NameASpace == <<"A", " ">>
NameB == <<"B">>
Blank == <<>>
Placeholder == <<"{name-not-set}">>

RECURSIVE LStrip(_)
LStrip(s) == IF s # <<>> /\ Head(s) = " " THEN LStrip(Tail(s)) ELSE s

RECURSIVE RStrip(_)
RStrip(s) ==
  IF s # <<>> /\ s[Len(s)] = " " THEN RStrip(SubSeq(s, 1, Len(s) - 1)) ELSE s

Strip(s) == RStrip(LStrip(s))

(***************************************************************************)
(* Partial functions (uuid -> record) and sequences.                       *)
(***************************************************************************)
Put(f, k, v) == [x \in (DOMAIN f) \cup {k} |-> IF x = k THEN v ELSE f[x]]
Drop(f, k) == [x \in (DOMAIN f) \ {k} |-> f[x]]
Range(s) == {s[i] : i \in DOMAIN s}
Filter(s, keep(_)) == SelectSeq(s, keep)

RECURSIVE SetToSeq(_)
SetToSeq(S) ==
  IF S = {} THEN <<>>
  ELSE LET m == CHOOSE x \in S : \A y \in S : x <= y
       IN <<m>> \o SetToSeq(S \ {m})

Min(S) == CHOOSE x \in S : \A y \in S : x <= y

(***************************************************************************)
(* Pure functions of the scanner.                                          *)
(***************************************************************************)
\* rf_to_freq_hz; FreqError stands for the ValueError it raises.
FreqError == 0 - 1

RfToFreqHz(rf) ==
  IF rf >= 14 THEN 473000000 + (rf - 14) * 6000000
  ELSE IF rf >= 7 THEN 177000000 + (rf - 7) * 6000000
  ELSE CASE rf = 2 -> 57000000
         [] rf = 3 -> 63000000
         [] rf = 4 -> 69000000
         [] rf = 5 -> 79000000
         [] rf = 6 -> 85000000
         [] OTHER -> FreqError

\* scan_state and scan_result as the backend sends them: a JSON number
\* ("i0", "i1", "i2"), a JSON string ("sOK", "sok", "sFAIL", ...), a JSON
\* boolean ("bTrue", "bFalse") or absent.
IntTokens == {"i0", "i1", "i2"}
BoolTokens == {"bTrue", "bFalse"}
StrResults == {"sOK", "sok", "sOk", "sFAIL", "sNONE"}
ScanResults == IntTokens \cup BoolTokens \cup StrResults \cup {"absent"}

\* str.upper
UpperResult(r) == IF r \in {"sok", "sOk"} THEN "sOK" ELSE r

\* isinstance(r, int), which holds of a bool too, and r == 1, which holds
\* of True.
IsInt(r) == r \in IntTokens \cup BoolTokens
EqualsOne(r) == r \in {"i1", "bTrue"}

\* _mux_is_ok
MuxIsOkWeak(info) ==
  LET r == info.scan_result
  IN IF IsInt(r) THEN EqualsOne(r)
     ELSE IF r \in StrResults THEN UpperResult(r) = "sOK"
     ELSE FALSE

MuxIsOk(info) ==
  IF ~info.enabled THEN FALSE
  ELSE LET r == info.scan_result
       IN IF IsInt(r) THEN EqualsOne(r)
          ELSE IF r \in StrResults THEN UpperResult(r) = "sOK"
          ELSE FALSE

\* The network test of list_muxes_for_network and count_mux_states:
\* the entry's network reference equals net_uuid.
InNetByUuid(e) == e.net = "uuid"

\* The network test of get_mux_index, get_mux_health_for_network and
\* disable_failed_muxes: net_uuid or the configured display name.
InNetByUuidOrName(e) == e.net \in {"uuid", "name"}

\* list_muxes_for_network
ListMuxesOfAnyNetwork(muxes) == SetToSeq(DOMAIN muxes)

ListMuxesForNetwork(muxes) ==
  SetToSeq({m \in DOMAIN muxes : InNetByUuid(muxes[m])})

\* get_mux_index / get_mux_health_for_network
GetMuxIndex(muxes) ==
  [m \in {x \in DOMAIN muxes : InNetByUuidOrName(muxes[x])} |-> muxes[m]]

\* get_good_muxes
GoodMuxes(idx) == {m \in DOMAIN idx : MuxIsOk(idx[m])}

\* count_mux_states followed by MuxStates.is_settled
InProgress(e) ==
  IF e.scan_state \in IntTokens THEN e.scan_state # "i0"
  ELSE e.scan_state \in {"sACTIVE", "sPENDING"}

IsSettled(muxes) ==
  \A m \in DOMAIN muxes : InNetByUuid(muxes[m]) => ~InProgress(muxes[m])

\* disable_failed_muxes: which entries it disables
IsFail(e) == e.scan_result = "i2" \/ UpperResult(e.scan_result) = "sFAIL"

FailedMuxesByUuid(muxes) ==
  SetToSeq({m \in DOMAIN muxes :
              InNetByUuid(muxes[m]) /\ muxes[m].enabled /\ IsFail(muxes[m])})

FailedMuxes(muxes) ==
  SetToSeq({m \in DOMAIN muxes :
              InNetByUuidOrName(muxes[m]) /\ muxes[m].enabled /\ IsFail(muxes[m])})

\* service_is_acceptable: "ok" or the reason key.  services is what
\* idnode/load answers for the service uuid, idx the mux index.
ServiceVerdictNoScan(su, services, idx) ==
  IF su \notin DOMAIN services THEN "removed_service_missing_mux"
  ELSE IF services[su].net \notin {"absent", "uuid", "name"}
       THEN "removed_wrong_network"
  ELSE IF services[su].mux \notin DOMAIN idx THEN "removed_unknown_mux"
  ELSE IF ~idx[services[su].mux].enabled THEN "removed_mux_disabled"
  ELSE "ok"

ServiceVerdict(su, services, idx) ==
  IF su \notin DOMAIN services THEN "removed_service_missing_mux"
  ELSE IF services[su].net \notin {"absent", "uuid", "name"}
       THEN "removed_wrong_network"
  ELSE IF services[su].mux = 0 THEN "removed_service_missing_mux"
  ELSE IF services[su].mux \notin DOMAIN idx THEN "removed_unknown_mux"
  ELSE IF ~idx[services[su].mux].enabled THEN "removed_mux_disabled"
  ELSE LET r == idx[services[su].mux].scan_result
       IN IF IsInt(r)
          THEN (IF ~EqualsOne(r) THEN "removed_mux_bad_scan" ELSE "ok")
          ELSE IF r \in StrResults
          THEN (IF UpperResult(r) # "sOK" THEN "removed_mux_bad_scan" ELSE "ok")
          ELSE "removed_mux_bad_scan"

ServiceIsAcceptable(su, services, idx) == ServiceVerdict(su, services, idx) = "ok"

\* get_service_best_name: svcname, then name (its tail after the last "/"),
\* then the svcname parameter of idnode/load; <<>> stands for None.
RECURSIVE TailAfterSlash(_)
TailAfterSlash(s) ==
  IF s = <<>> THEN <<>>
  ELSE IF "/" \in Range(Tail(s)) THEN TailAfterSlash(Tail(s))
  ELSE IF Head(s) = "/" THEN Tail(s)
  ELSE s

BestNameFromName(v) ==
  LET s == Strip(v)
  IN IF "/" \in Range(s) /\ Strip(TailAfterSlash(s)) # <<>>
     THEN Strip(TailAfterSlash(s))
     ELSE s

BestNameOrPlaceholder(s) ==
  IF Strip(s.svcname) # <<>> THEN Strip(s.svcname)
  ELSE IF Strip(s.name) # <<>> THEN BestNameFromName(s.name)
  ELSE IF Strip(s.idname) # <<>> THEN Strip(s.idname)
  ELSE Placeholder

BestName(s) ==
  IF Strip(s.svcname) # <<>> THEN Strip(s.svcname)
  ELSE IF Strip(s.name) # <<>> THEN BestNameFromName(s.name)
  ELSE Strip(s.idname)

\* ensure_channels_mapped_from_services: the services no channel of the
\* fetched grid references, in listing order.
MappedServices(chans) == UNION {Range(chans[c].services) : c \in DOMAIN chans}

AllServices(services, chans) == SetToSeq(DOMAIN services)

UnmappedServices(services, chans) ==
  SetToSeq({su \in DOMAIN services : su \notin MappedServices(chans)})

\* delete_orphan_channels: the channels whose services list is empty.
OrphanChannelsNone(chans) == <<>>

OrphanChannels(chans) ==
  SetToSeq({c \in DOMAIN chans : chans[c].services = <<>>})

\* cleanup_unnamed_channels: the configured markers plus the blank name.
UnnamedMarkersConfigured(markers) == {Strip(n) : n \in markers}

UnnamedMarkers(markers) == {Strip(n) : n \in markers} \cup {<<>>}

UnnamedChannels(chans, markers) ==
  SetToSeq({c \in DOMAIN chans : Strip(chans[c].name) \in UnnamedMarkers(markers)})

\* The scan of the poll loop times out when elapsed > timeout_secs.
TimedOutNever(e, limit) == FALSE
TimedOut(e, limit) == e > limit

(***************************************************************************)
(* deduplicate_channels_by_name                                            *)
(***************************************************************************)
\* get_service_to_mux_map
ServiceToMux(services) ==
  [su \in {x \in DOMAIN services : services[x].mux # 0} |-> services[su].mux]

\* good_service_count
RECURSIVE CountGood(_, _, _)
CountGood(list, s2m, good) ==
  IF list = <<>> THEN 0
  ELSE (IF Head(list) \in DOMAIN s2m /\ s2m[Head(list)] \in good THEN 1 ELSE 0)
       + CountGood(Tail(list), s2m, good)

GoodServiceCount(ch, s2m, good) == CountGood(ch.services, s2m, good)

Major(ch) == IF ch.number = <<>> THEN 9999 ELSE ch.number[1]
Minor(ch) == IF ch.number = <<>> THEN 9999 ELSE ch.number[2]

\* The sort key of enriched.sort
SortKeyNoGsc(ch, s2m, good) ==
  <<0, IF ch.enabled THEN 0 - 1 ELSE 0,
    Major(ch), Minor(ch), 0 - Len(ch.services)>>

SortKey(ch, s2m, good) ==
  <<0 - GoodServiceCount(ch, s2m, good), IF ch.enabled THEN 0 - 1 ELSE 0,
    Major(ch), Minor(ch), 0 - Len(ch.services)>>

RECURSIVE LexLess(_, _)
LexLess(a, b) ==
  IF a = <<>> THEN FALSE
  ELSE IF Head(a) # Head(b) THEN Head(a) < Head(b)
  ELSE LexLess(Tail(a), Tail(b))

\* list.sort is stable: equal keys stay in grid order (ascending uuid here).
Before(c, d, chans, s2m, good) ==
  \/ LexLess(SortKey(chans[c], s2m, good), SortKey(chans[d], s2m, good))
  \/ SortKey(chans[c], s2m, good) = SortKey(chans[d], s2m, good) /\ c < d

RECURSIVE SortGroup(_, _, _, _)
SortGroup(S, chans, s2m, good) ==
  IF S = {} THEN <<>>
  ELSE LET f == CHOOSE c \in S : \A d \in S \ {c} : Before(c, d, chans, s2m, good)
       IN <<f>> \o SortGroup(S \ {f}, chans, s2m, good)

\* The name a channel is grouped under, or <<>> when it is left out.
GroupNameAny(ch) == Strip(ch.name)

GroupName(ch) ==
  IF Strip(ch.name) = <<>> \/ Strip(ch.name) = Placeholder THEN <<>>
  ELSE Strip(ch.name)

\* The groups of two or more, each sorted, in the order their names first
\* appear in the grid.
GroupOf(c, chans) ==
  {d \in DOMAIN chans : GroupName(chans[d]) = GroupName(chans[c])}

GroupLeadersOfThree(chans) ==
  {c \in DOMAIN chans :
     /\ GroupName(chans[c]) # <<>>
     /\ c = Min(GroupOf(c, chans))
     /\ Cardinality(GroupOf(c, chans)) >= 3}

GroupLeaders(chans) ==
  {c \in DOMAIN chans :
     /\ GroupName(chans[c]) # <<>>
     /\ c = Min(GroupOf(c, chans))
     /\ Cardinality(GroupOf(c, chans)) >= 2}

RECURSIVE GroupsFrom(_, _, _, _)
GroupsFrom(leaders, chans, s2m, good) ==
  IF leaders = <<>> THEN <<>>
  ELSE <<SortGroup(GroupOf(Head(leaders), chans), chans, s2m, good)>>
       \o GroupsFrom(Tail(leaders), chans, s2m, good)

DedupGroups(chans, s2m, good) ==
  GroupsFrom(SetToSeq(GroupLeaders(chans)), chans, s2m, good)

\* The canonical member: the first of the sorted group, or the second when
\* the two tie on good services and only the second streams.
CanonicalFirst(group, chans, s2m, good, dry, aOk, bOk) == group[1]

CanonicalSecond(group, chans, s2m, good, dry, aOk, bOk) == group[2]

Canonical(group, chans, s2m, good, dry, aOk, bOk) ==
  IF /\ Len(group) >= 2
     /\ GoodServiceCount(chans[group[1]], s2m, good)
          = GoodServiceCount(chans[group[2]], s2m, good)
     /\ ~dry
     /\ bOk /\ ~aOk
  THEN group[2]
  ELSE group[1]

\* a_ok, b_ok: the answers of the two is_channel_streamable calls, made
\* only under "if a[1] == b[1]" and "if not dry_run"; none otherwise.
StreamProbes(group, chans, s2m, good, dry, aOk, bOk) ==
  IF /\ Len(group) >= 2
     /\ GoodServiceCount(chans[group[1]], s2m, good)
          = GoodServiceCount(chans[group[2]], s2m, good)
     /\ ~dry
  THEN <<aOk, bOk>>
  ELSE <<>>

\* merged_services without the "su not in seen" test.
AppendAll(acc, list) == acc \o list

\* merged_services: first-seen order over the members in sorted order.
RECURSIVE AppendNew(_, _)
AppendNew(acc, list) ==
  IF list = <<>> THEN acc
  ELSE AppendNew(IF Head(list) \in Range(acc) THEN acc ELSE Append(acc, Head(list)),
                 Tail(list))

RECURSIVE MergeFrom(_, _, _)
MergeFrom(acc, group, chans) ==
  IF group = <<>> THEN acc
  ELSE MergeFrom(AppendNew(acc, chans[Head(group)].services), Tail(group), chans)

MergedServicesCanonOnly(group, chans) == chans[group[1]].services

MergedServices(group, chans) == MergeFrom(<<>>, group, chans)

(***************************************************************************)
(* prune_invalid_services_per_channel                                      *)
(***************************************************************************)
KeptServicesAll(list, services, idx) == list

KeptServices(list, services, idx) ==
  LET ok(su) == ServiceIsAcceptable(su, services, idx)
  IN SelectSeq(list, ok)

(***************************************************************************)
(* _request, _get, _post and the idnode save helpers                       *)
(***************************************************************************)
Attempts == 3

\* What one HTTP attempt can end in: a connection error or a response.
Outcomes == {"conn_error", "s200", "s400", "s404", "s500"}

\* resp.status_code >= 500
ServerError(o) == o = "s500"

\* Whether _request goes round again after attempt number i (from 0).
RetriesAnyError(o, i) == o # "s200" /\ i < Attempts - 1

Retries(o, i) == (o = "conn_error" \/ ServerError(o)) /\ i < Attempts - 1

\* What _request ends with after an attempt it does not retry.
RequestEnd(o) == IF o = "conn_error" THEN "raised" ELSE o

\* The payload encodings of idnode_save_params and of idnode_save.
SaveParamsEncodings == <<"node", "node[]">>
SaveEncodings == <<"node", "node[]", "legacy">>

NoCall ==
  [op |-> "none", at |-> "done", method |-> "none", enc |-> "none", encs |-> <<>>,
   i |-> 0, sent |-> <<>>, last |-> "none", ret |-> "none"]

\* A helper is called: a bare _get or _post, or a save whose class is
\* given (idnode_save_params with cls, idnode_save with "class" in node)
\* or has to be loaded first.
Call(op, known) ==
  [NoCall EXCEPT
     !.op = op,
     !.at = "request",
     !.method = IF op = "get" \/ ~known THEN "GET" ELSE "POST",
     !.enc = IF op = "get" THEN "plain_get"
             ELSE IF op = "post" THEN "plain_post"
             ELSE IF ~known THEN "load"
             ELSE "node",
     !.encs = IF op = "save_params" THEN Tail(SaveParamsEncodings)
              ELSE IF op = "save" THEN Tail(SaveEncodings)
              ELSE <<>>]

\* One turn of the loop of _request.
Attempt(h, o) ==
  LET h1 == [h EXCEPT !.sent = Append(@, [method |-> h.method, enc |-> h.enc,
                                          outcome |-> o])]
  IN IF Retries(o, h.i) THEN [h1 EXCEPT !.i = @ + 1]
     ELSE [h1 EXCEPT !.at = "after", !.last = RequestEnd(o), !.i = 0]

Finished(h, r) == [h EXCEPT !.at = "done", !.ret = r]

NextEncoding(h) ==
  [h EXCEPT !.at = "request", !.method = "POST", !.enc = Head(h.encs),
            !.encs = Tail(h.encs)]

\* What the caller of _request does with its end: _get raises on an error
\* status; the class detection of idnode_save_params gives up on any
\* failure and that of idnode_save goes on without the class; the save
\* loops return True on 200 and go on to the next encoding otherwise, a
\* raised RequestException being caught by idnode_save_params only.
\* hasClass says whether the loaded entry names its class.
After(h, hasClass) ==
  IF h.op = "get" THEN Finished(h, IF h.last = "s200" THEN "resp" ELSE "raised")
  ELSE IF h.op = "post" THEN Finished(h, IF h.last = "raised" THEN "raised" ELSE "resp")
  ELSE IF h.enc = "load"
  THEN (IF h.op = "save_params" /\ (h.last # "s200" \/ ~hasClass)
        THEN Finished(h, "false")
        ELSE [h EXCEPT !.at = "request", !.method = "POST", !.enc = "node"])
  ELSE IF h.last = "s200" THEN Finished(h, "true")
  ELSE IF h.last = "raised"
  THEN Finished(h, IF h.op = "save_params" THEN "false" ELSE "raised")
  ELSE IF h.encs # <<>> THEN NextEncoding(h)
  ELSE Finished(h, "false")

(***************************************************************************)
(* What the backend does with a request it accepts.                        *)
(***************************************************************************)
(* _iter_hw_tree: the depth-first walk of /api/hardware/tree.  A tree maps *)
(* a node id to the list hardware/tree answers for it; node 0 is "root".   *)
(***************************************************************************)
NodeIds == 0..MaxNode

\* The node dicts of an answer: the uuid and whether leaf == 0.
NodeEntries == [id : NodeIds, inner : {TRUE}] \cup {[id |-> MaxNode, inner |-> FALSE]}

ChildLists == {<<>>} \cup {<<a>> : a \in NodeEntries}
                \cup {<<a, b>> : a \in NodeEntries, b \in NodeEntries}

NoWalk == [tree |-> <<>>, stack |-> <<>>, seen |-> {}, fetched |-> <<>>, yielded |-> <<>>,
           raised |-> FALSE]

\* What one answer pushes: the uuid of every node with leaf == 0, in order.
RECURSIVE Pushed(_)
Pushed(nodes) ==
  IF nodes = <<>> THEN <<>>
  ELSE (IF Head(nodes).inner THEN <<Head(nodes).id>> ELSE <<>>) \o Pushed(Tail(nodes))

NeverSeen(u, seen) == FALSE

AlreadySeen(u, seen) == u \in seen

\* One turn of "while stack": pop, the seen test, the read, the yields and
\* the pushes.  o is how the read ends: with a list, with something that is
\* no list (logged, nothing yielded), or with an exception out of _get.
WalkTurn(w, o) ==
  LET u == w.stack[Len(w.stack)]
      rest == SubSeq(w.stack, 1, Len(w.stack) - 1)
  IN IF AlreadySeen(u, w.seen) THEN [w EXCEPT !.stack = rest]
     ELSE IF o = "raises"
     THEN [w EXCEPT !.stack = rest, !.seen = @ \cup {u}, !.fetched = Append(@, u),
                    !.raised = TRUE]
     ELSE IF o = "no_list"
     THEN [w EXCEPT !.stack = rest, !.seen = @ \cup {u}, !.fetched = Append(@, u)]
     ELSE [w EXCEPT !.stack = rest \o Pushed(w.tree[u]), !.seen = @ \cup {u},
                    !.fetched = Append(@, u), !.yielded = @ \o w.tree[u]]

(***************************************************************************)
\* idnode/delete of a mux: its services go with it, and the channels that
\* referenced them are left behind with the links removed.
ServicesOfMux(services, m) == {su \in DOMAIN services : services[su].mux = m}

BackendDropServices(services, m) ==
  [su \in (DOMAIN services) \ ServicesOfMux(services, m) |-> services[su]]

BackendStripLinks(chans, gone) ==
  LET keep(su) == su \notin gone
  IN [c \in DOMAIN chans |->
        [chans[c] EXCEPT !.services = SelectSeq(chans[c].services, keep)]]

\* mux_create: a mux of the network, enabled, queued for scan when the
\* submitted conf carried scan_state.
NewMux(freq, queued) ==
  [net |-> "uuid", enabled |-> TRUE,
   scan_state |-> IF queued THEN "i1" ELSE "i0",
   scan_result |-> "i0", freq |-> freq]

\* channel/create with conf {enabled, name, autoname, epgauto, services}
NewChannel(name, su) ==
  [name |-> name, services |-> <<su>>, enabled |-> TRUE, number |-> <<>>]


VARIABLES
  cfg,       \* ScanConfig
  net,       \* whether a network with display name cfg.net_name exists
  fe,        \* ATSC-T frontend uuid -> its enabled flag, whether it lists the network
  schema,    \* the property ids the network's mux class declares
  mux,       \* mux uuid -> mux grid entry
  svc,       \* service uuid -> service entry
  chan,      \* channel uuid -> channel grid entry
  pc,        \* position of scan()
  run,       \* which run of scan() this is
  result,    \* what scan() ended with: "none", "true", "false", "raised"
  todo,      \* the list the running loop still has to go through
  dels,      \* dedup: the members of the current group still to delete
  grid,      \* the channel grid the phase fetched when it began
  index,     \* the mux index the phase fetched when it began
  elapsed,   \* poll loop: time since start_time, in units of sleep_secs
  timedOut,  \* whether the poll loop has hit its timeout
  reqs,      \* the mutating requests sent: [run, phase, kind]
  phases,    \* the phases of this run, in the order they began
  budget,    \* request failures the environment may still inject
  faulty,    \* the phases in which a request failed: [run, phase]
  stats,     \* the counters of the last phase that returns counters
  http,      \* one call of an HTTP helper, attempt by attempt
  walk,      \* one walk of the hardware tree: the tree, stack, seen, the reads made
  tuner,     \* the Tuner: its fields, the clock, the loads mpv was given
  dog        \* the TVHWatchdog: its fields, the clock, the actions it took

vars == <<cfg, net, fe, schema, mux, svc, chan, pc, run, result, todo, dels, grid, index,
          elapsed, timedOut, reqs, phases, budget, faulty, stats,
          http, walk, tuner, dog>>

backend == <<net, fe, schema, mux, svc, chan>>

(***************************************************************************)
(* scan(): the order of the phases.                                        *)
(***************************************************************************)
NextPcCleanAlways(p, c) ==
  CASE p = "epg" -> "resolve"
    [] p = "resolve" -> "frontends"
    [] p = "frontends" -> IF c.wipe THEN "wipe_list" ELSE "create_list"
    [] p = "wipe" -> "create_list"
    [] p = "create" -> "force_list"
    [] p = "force" -> "poll0"
    [] p = "poll" -> "orphans_list"
    [] p = "orphans" -> "disable_list"
    [] p = "disable" -> "reconcile_list"
    [] p = "reconcile" -> "clean_list"
    [] p = "clean" -> "dedup_list"
    [] p = "dedup" -> "health"
    [] p = "health" -> "prune_list"
    [] OTHER -> "finish"

NextPc(p, c) ==
  CASE p = "epg" -> "resolve"
    [] p = "resolve" -> "frontends"
    [] p = "frontends" -> IF c.wipe THEN "wipe_list" ELSE "create_list"
    [] p = "wipe" -> "create_list"
    [] p = "create" -> "force_list"
    [] p = "force" -> "poll0"
    [] p = "poll" -> "orphans_list"
    [] p = "orphans" -> "disable_list"
    [] p = "disable" -> "reconcile_list"
    [] p = "reconcile" -> IF c.delete_unnamed THEN "clean_list" ELSE "dedup_list"
    [] p = "clean" -> "dedup_list"
    [] p = "dedup" -> "health"
    [] p = "health" -> "prune_list"
    [] OTHER -> "finish"

\* Where scan() goes when the network is not found, and when the poll
\* loop times out: return False.
OnNotFoundGoOn(c) == NextPc("resolve", c)
OnNotFound(c) == "done"

OnTimeoutGoOn(c) == NextPc("poll", c)
OnTimeout(c) == "done"

\* A mutating request: the run and phase it is sent in, what it asks for,
\* the uuid (or RF number) it is about, the fields of the conf it carries.
Request(phase, kind, id, conf) ==
  [run |-> run, phase |-> phase, kind |-> kind, id |-> id, conf |-> conf]

LogAt(phase, kind, id) == reqs \cup {Request(phase, kind, id, {})}

Log(phase, kind) == LogAt(phase, kind, 0)

\* An outcome other than "ok" is a failure the environment injects into the
\* phase; full says that the backend has no room for what a create asks.
Spend(phase, o, full) ==
  /\ (o # "ok") => budget > 0
  /\ budget' = IF o = "ok" THEN budget ELSE budget - 1
  /\ faulty' = IF o = "ok" /\ ~full THEN faulty
               ELSE faulty \cup {[run |-> run, phase |-> phase]}

\* scan() is left: by return (res "true" or "false") or by an exception
\* that nothing catches (res "raised").
Leave(res) ==
  /\ pc' = "done"
  /\ result' = res
  /\ todo' = <<>>
  /\ dels' = <<>>
  /\ grid' = <<>>
  /\ index' = <<>>

\* A loop goes on with the rest of its list, or the phase ends.
Loop(here, rest, after) ==
  /\ pc' = IF rest = <<>> THEN after ELSE here
  /\ todo' = rest

(***************************************************************************)
(* Phase 1: set_epg_grabbers_enabled(False)                                *)
(***************************************************************************)
EpgGrabbers ==
  /\ pc = "epg"
  /\ \E o \in {"ok", "load_raises", "no_entry", "save_rejected", "save_raises"} :
       /\ Spend("epg", o, FALSE)
       /\ (cfg.dry_run => o \in {"ok", "load_raises", "no_entry"})
       /\ reqs' = IF o \in {"ok", "save_rejected", "save_raises"} /\ ~cfg.dry_run
                  THEN Log("epg", "epg_save") ELSE reqs
       /\ phases' = Append(phases, "epg")
       /\ IF o \in {"load_raises", "save_raises"}
          THEN Leave("raised")
          ELSE /\ pc' = NextPc("epg", cfg)
               /\ UNCHANGED <<result, todo, dels, grid, index>>
  /\ UNCHANGED <<dog, tuner, walk, http, stats, cfg, backend, run, elapsed, timedOut>>

(***************************************************************************)
(* Phase 2: get_network_uuid                                               *)
(***************************************************************************)
ResolveNetwork ==
  /\ pc = "resolve"
  /\ \E o \in {"ok", "raises"} :
       /\ Spend("resolve", o, FALSE)
       /\ phases' = Append(phases, "resolve")
       /\ IF o = "raises" THEN Leave("raised")
          ELSE IF ~net
          THEN IF OnNotFound(cfg) = "done" THEN Leave("false")
               ELSE /\ pc' = OnNotFound(cfg)
                    /\ UNCHANGED <<result, todo, dels, grid, index>>
          ELSE /\ pc' = NextPc("resolve", cfg)
               /\ UNCHANGED <<result, todo, dels, grid, index>>
  /\ UNCHANGED <<dog, tuner, walk, http, stats, cfg, backend, run, elapsed, timedOut, reqs>>

(***************************************************************************)
(* Phase 3: ensure_atsc_t_frontends_enabled_and_linked                     *)
(***************************************************************************)
\* The walk of the hardware tree, whose reads are outside any try.
FrontendsList ==
  /\ pc = "frontends"
  /\ \E o \in {"ok", "raises"} :
       /\ Spend("frontends", o, FALSE)
       /\ phases' = Append(phases, "frontends")
       /\ IF o = "raises" THEN Leave("raised")
          ELSE /\ Loop("frontend", SetToSeq(DOMAIN fe), NextPc("frontends", cfg))
               /\ UNCHANGED <<result, dels, grid, index>>
  /\ UNCHANGED <<dog, tuner, walk, http, stats, cfg, backend, run, elapsed, timedOut, reqs>>

\* What a frontend needs: enabled set, the network added to its list.
NeedsChangesEnabledOnly(f) == ~f.enabled

NeedsChanges(f) == ~f.enabled \/ ~f.linked

Configured(f) == [enabled |-> TRUE, linked |-> TRUE]

FrontendSaveOf(f) == Request("frontends", "frontend_save", f, {})

\* One matched frontend: its idnode load (outside any try) and the changes
\* it needs; none needed, or no entry, and the loop goes to the next node.
FrontendLoad ==
  /\ pc = "frontend"
  /\ \E o \in {"ok", "raises", "no_entry"} :
       /\ Spend("frontends", o, FALSE)
       /\ IF o = "raises" THEN Leave("raised")
          ELSE /\ IF o = "ok" /\ NeedsChanges(fe[Head(todo)])
                  THEN pc' = "frontend_save" /\ todo' = todo
                  ELSE Loop("frontend", Tail(todo), NextPc("frontends", cfg))
               /\ UNCHANGED <<result, dels, grid, index>>
  /\ UNCHANGED <<dog, tuner, walk, http, stats, cfg, backend, run, elapsed, timedOut, reqs, phases>>

\* _maybe_save_idnode_params with the changes: one call, none in dry-run.
FrontendSave ==
  /\ pc = "frontend_save"
  /\ \E o \in {"ok", "save_fails"} :
       /\ Spend("frontends", o, FALSE)
       /\ (o = "save_fails") => ~cfg.dry_run
       /\ LET f == Head(todo)
          IN /\ reqs' = IF cfg.dry_run THEN reqs ELSE reqs \cup {FrontendSaveOf(f)}
             /\ fe' = IF ~cfg.dry_run /\ o = "ok"
                      THEN [fe EXCEPT ![f] = Configured(fe[f])] ELSE fe
       /\ Loop("frontend", Tail(todo), NextPc("frontends", cfg))
  /\ UNCHANGED <<dog, tuner, walk, http, stats, cfg, net, schema, mux, svc, chan, run, elapsed, timedOut,
                 phases, result, dels, grid, index>>

(***************************************************************************)
(* Phase 4: the optional wipe                                              *)
(***************************************************************************)
WipeList ==
  /\ pc = "wipe_list"
  /\ \E o \in {"ok", "raises"} :
       /\ Spend("wipe", o, FALSE)
       /\ phases' = Append(phases, "wipe")
       /\ IF o = "raises" THEN Leave("raised")
          ELSE /\ Loop("wipe", ListMuxesForNetwork(mux), NextPc("wipe", cfg))
               /\ UNCHANGED <<result, dels, grid, index>>
  /\ UNCHANGED <<dog, tuner, walk, http, stats, cfg, backend, run, elapsed, timedOut, reqs>>

\* What the backend loses with a mux: its services and the links to them.
WipeEffect(ok, m) ==
  IF ok
  THEN /\ mux' = Drop(mux, m)
       /\ svc' = BackendDropServices(svc, m)
       /\ chan' = BackendStripLinks(chan, ServicesOfMux(svc, m))
  ELSE UNCHANGED <<mux, svc, chan>>

\* delete_mux_uuid, first half: idnode/delete; a 200 ends the call, any
\* other answer or a RequestException hands over to the second half, which
\* decides whether the delete has failed.
WipeMux ==
  /\ pc = "wipe"
  /\ \E o \in {"ok", "not_deleted"} :
       /\ reqs' = LogAt("wipe", "mux_delete", Head(todo))
       /\ WipeEffect(o = "ok", Head(todo))
       /\ IF o = "ok" THEN Loop("wipe", Tail(todo), NextPc("wipe", cfg))
          ELSE pc' = "wipe_fallback" /\ todo' = todo
  /\ UNCHANGED <<dog, tuner, walk, http, stats, cfg, net, fe, schema, run, result, dels, grid, index, elapsed,
                 timedOut, phases, budget, faulty>>

\* delete_mux_uuid, second half: mpegts/mux/delete after the first did not
\* answer 200; scan() ignores what the call returns.
WipeFallback ==
  /\ pc = "wipe_fallback"
  /\ \E o \in {"ok", "not_deleted"} :
       /\ Spend("wipe", o, FALSE)
       /\ reqs' = LogAt("wipe", "mux_delete_fallback", Head(todo))
       /\ WipeEffect(o = "ok", Head(todo))
       /\ Loop("wipe", Tail(todo), NextPc("wipe", cfg))
  /\ UNCHANGED <<dog, tuner, walk, http, stats, cfg, net, fe, schema, run, result, dels, grid, index, elapsed,
                 timedOut, phases>>

(***************************************************************************)
(* Phase 5: create the muxes of the RF range                               *)
(***************************************************************************)
RfRangeFirstOnly(a, b) == IF a <= b THEN <<a>> ELSE <<>>

\* range(rf_start, rf_end + 1)
RfRange(a, b) == [i \in 1..(b - a + 1) |-> a + i - 1]

CreateList ==
  /\ pc = "create_list"
  /\ phases' = Append(phases, "create")
  /\ Loop("create", RfRange(cfg.rf_start, cfg.rf_end), NextPc("create", cfg))
  /\ UNCHANGED <<dog, tuner, walk, http, stats, cfg, backend, run, result, dels, grid, index, elapsed, timedOut,
                 reqs, budget, faulty>>

\* The fields of the conf create_mux_atsc submits, given the property ids
\* of the mux class: the dict it starts from, then scan_state if declared.
MuxConf(props) ==
  {"enabled", "frequency", "modulation"}
    \cup (IF "scan_state" \in props THEN {"scan_state"} ELSE {})

\* One turn of the loop: rf_to_freq_hz, then create_mux_atsc, which reads
\* the mux class and posts mux_create; a ValueError skips the RF number.
CreateMux ==
  /\ pc = "create"
  /\ \E o \in {"ok", "class_fails", "rejected"} :
       /\ Spend("create", o,
                RfToFreqHz(Head(todo)) # FreqError /\ o = "ok" /\ DOMAIN mux = MuxIds)
       /\ LET freq == RfToFreqHz(Head(todo))
              free == MuxIds \ DOMAIN mux
              posts == freq # FreqError /\ o # "class_fails"
          IN /\ (freq = FreqError) => o = "ok"
             /\ reqs' = IF posts
                        THEN reqs \cup {Request("create", "mux_create", Head(todo),
                                                MuxConf(schema))}
                        ELSE reqs
             /\ mux' = IF posts /\ o = "ok" /\ free # {}
                       THEN Put(mux, Min(free),
                                NewMux(freq, "scan_state" \in MuxConf(schema)))
                       ELSE mux
       /\ Loop("create", Tail(todo), NextPc("create", cfg))
  /\ UNCHANGED <<dog, tuner, walk, http, stats, cfg, net, fe, schema, svc, chan, run, result, dels, grid, index,
                 elapsed, timedOut, phases>>

(***************************************************************************)
(* Phase 6: force a scan of every mux of the network                       *)
(***************************************************************************)
\* The mux grid read of line 1662 and list_muxes_for_network.
ForceList ==
  /\ pc = "force_list"
  /\ \E o \in {"ok", "raises"} :
       /\ Spend("force", o, FALSE)
       /\ phases' = Append(phases, "force")
       /\ IF o = "raises" THEN Leave("raised")
          ELSE /\ Loop("force", ListMuxesForNetwork(mux), NextPc("force", cfg))
               /\ UNCHANGED <<result, dels, grid, index>>
  /\ UNCHANGED <<dog, tuner, walk, http, stats, cfg, backend, run, elapsed, timedOut, reqs>>

\* force_scan_mux: mpegts/mux/scan, then idnode_save of scan_state, whose
\* posts are outside any try.
ForceScanMux ==
  /\ pc = "force"
  /\ \E o \in {"ok", "fails", "raises"} :
       /\ Spend("force", o, FALSE)
       /\ reqs' = Log("force", "mux_scan")
       /\ mux' = IF o = "ok" /\ Head(todo) \in DOMAIN mux
                 THEN [mux EXCEPT ![Head(todo)].scan_state = "i1"] ELSE mux
       /\ IF o = "raises" THEN Leave("raised")
          ELSE /\ Loop("force", Tail(todo), NextPc("force", cfg))
               /\ UNCHANGED <<result, dels, grid, index>>
  /\ UNCHANGED <<dog, tuner, walk, http, stats, cfg, net, fe, schema, svc, chan, run, elapsed, timedOut, phases>>

(***************************************************************************)
(* Phase 7: poll until settled                                             *)
(***************************************************************************)
PollStart ==
  /\ pc = "poll0"
  /\ \E o \in {"ok", "raises"} :
       /\ Spend("poll", o, FALSE)
       /\ phases' = Append(phases, "poll")
       /\ elapsed' = 0
       /\ IF o = "raises" THEN Leave("raised")
          ELSE /\ pc' = "poll"
               /\ UNCHANGED <<result, todo, dels, grid, index>>
  /\ UNCHANGED <<dog, tuner, walk, http, stats, cfg, backend, run, timedOut, reqs>>

\* One turn of the while loop: the timeout test, count_mux_states,
\* is_settled, sleep.
Poll ==
  /\ pc = "poll"
  /\ \E o \in {"ok", "raises"} :
       /\ Spend("poll", o, FALSE)
       /\ IF TimedOut(elapsed, cfg.timeout)
          THEN /\ timedOut' = TRUE
               /\ elapsed' = elapsed
               /\ IF o = "raises" THEN Leave("raised")
                  ELSE IF OnTimeout(cfg) = "done" THEN Leave("false")
                  ELSE /\ pc' = OnTimeout(cfg)
                       /\ UNCHANGED <<result, todo, dels, grid, index>>
          ELSE /\ timedOut' = timedOut
               /\ IF o = "raises" THEN Leave("raised") /\ elapsed' = elapsed
                  ELSE IF IsSettled(mux)
                  THEN /\ pc' = NextPc("poll", cfg)
                       /\ elapsed' = elapsed
                       /\ UNCHANGED <<result, todo, dels, grid, index>>
                  ELSE /\ elapsed' = elapsed + 1
                       /\ UNCHANGED <<pc, result, todo, dels, grid, index>>
  /\ UNCHANGED <<dog, tuner, walk, http, stats, cfg, backend, run, reqs, phases>>

(***************************************************************************)
(* The backend's tuners, working while scan() runs.                        *)
(***************************************************************************)
BackendScanStart ==
  /\ pc # "done"
  /\ \E m \in DOMAIN mux :
       /\ mux[m].scan_state = "i1"
       /\ mux' = [mux EXCEPT ![m].scan_state = "i2"]
  /\ UNCHANGED <<dog, tuner, walk, http, stats, cfg, net, fe, schema, svc, chan, pc, run, result, todo, dels, grid,
                 index, elapsed, timedOut, reqs, phases, budget, faulty>>

\* A scan ends with OK or FAIL; one that ends OK may have found a service.
DiscoveredNames == {NameA, Blank}

NewService(m, n) ==
  [mux |-> m, net |-> "absent", svcname |-> n, name |-> <<>>, idname |-> <<>>]

BackendScanDone ==
  /\ pc # "done"
  /\ \E m \in DOMAIN mux, r \in {"i1", "i2"}, found \in BOOLEAN, n \in DiscoveredNames :
       /\ mux[m].scan_state = "i2"
       /\ mux' = [mux EXCEPT ![m].scan_state = "i0", ![m].scan_result = r]
       /\ LET free == SvcIds \ DOMAIN svc
          IN svc' = IF found /\ r = "i1" /\ free # {}
                    THEN Put(svc, Min(free), NewService(m, n)) ELSE svc
  /\ UNCHANGED <<dog, tuner, walk, http, stats, cfg, net, fe, schema, chan, pc, run, result, todo, dels, grid,
                 index, elapsed, timedOut, reqs, phases, budget, faulty>>

(***************************************************************************)
(* Phase 8: delete_orphan_channels, disable_failed_muxes                   *)
(***************************************************************************)
\* get_channel_grid answers [] when its request fails.
OrphansList ==
  /\ pc = "orphans_list"
  /\ \E o \in {"ok", "grid_fails"} :
       /\ Spend("orphans", o, FALSE)
       /\ phases' = Append(phases, "orphans")
       /\ Loop("orphans", IF o = "ok" THEN OrphanChannels(chan) ELSE <<>>,
               NextPc("orphans", cfg))
  /\ UNCHANGED <<dog, tuner, walk, http, stats, cfg, backend, run, result, dels, grid, index, elapsed, timedOut,
                 reqs>>

DeleteOrphan ==
  /\ pc = "orphans"
  /\ \E o \in {"ok", "fails"} :
       /\ Spend("orphans", o, FALSE)
       /\ cfg.dry_run => o = "ok"
       /\ reqs' = IF cfg.dry_run THEN reqs
                  ELSE LogAt("orphans", "chan_delete", Head(todo))
       /\ chan' = IF ~cfg.dry_run /\ o = "ok" THEN Drop(chan, Head(todo)) ELSE chan
       /\ Loop("orphans", Tail(todo), NextPc("orphans", cfg))
  /\ UNCHANGED <<dog, tuner, walk, http, stats, cfg, net, fe, schema, mux, svc, run, result, dels, grid, index,
                 elapsed, timedOut, phases>>

DisableList ==
  /\ pc = "disable_list"
  /\ \E o \in {"ok", "raises"} :
       /\ Spend("disable", o, FALSE)
       /\ phases' = Append(phases, "disable")
       /\ IF o = "raises" THEN Leave("raised")
          ELSE /\ Loop("disable", FailedMuxes(mux), NextPc("disable", cfg))
               /\ UNCHANGED <<result, dels, grid, index>>
  /\ UNCHANGED <<dog, tuner, walk, http, stats, cfg, backend, run, elapsed, timedOut, reqs>>

\* _idnode_load_entry of the mux, then _maybe_save_idnode_params.
DisableMux ==
  /\ pc = "disable"
  /\ \E o \in {"ok", "raises", "save_fails"} :
       /\ Spend("disable", o, FALSE)
       /\ (o = "save_fails") => ~cfg.dry_run
       /\ LET saves == ~cfg.dry_run /\ o # "raises"
          IN /\ reqs' = IF saves THEN LogAt("disable", "mux_save", Head(todo)) ELSE reqs
             /\ mux' = IF saves /\ o = "ok"
                       THEN [mux EXCEPT ![Head(todo)].enabled = FALSE] ELSE mux
       /\ IF o = "raises" THEN Leave("raised")
          ELSE /\ Loop("disable", Tail(todo), NextPc("disable", cfg))
               /\ UNCHANGED <<result, dels, grid, index>>
  /\ UNCHANGED <<dog, tuner, walk, http, stats, cfg, net, fe, schema, svc, chan, run, elapsed, timedOut, phases>>

(***************************************************************************)
(* Phase 9: ensure_channels_mapped_from_services                           *)
(***************************************************************************)
\* list_services and get_channel_grid each answer [] when the request fails.
ReconcileList ==
  /\ pc = "reconcile_list"
  /\ \E o \in {"ok", "services_fail", "grid_fails"} :
       /\ Spend("reconcile", o, FALSE)
       /\ phases' = Append(phases, "reconcile")
       /\ LET services == IF o = "services_fail" THEN <<>> ELSE svc
              chans == IF o = "grid_fails" THEN <<>> ELSE chan
          IN /\ Loop("reconcile", UnmappedServices(services, chans),
                     NextPc("reconcile", cfg))
             /\ stats' = [created |-> 0,
                          skipped_mapped |->
                            Cardinality(DOMAIN services \cap MappedServices(chans)),
                          skipped_no_name |-> 0]
  /\ UNCHANGED <<dog, tuner, walk, http, cfg, backend, run, result, dels, grid, index, elapsed, timedOut,
                 reqs>>

\* One service: get_service_best_name (whose idnode load is outside any
\* try), the dry_run gate, the channel/create post (outside any try).
NeedsIdnodeName(s) == Strip(s.svcname) = <<>> /\ Strip(s.name) = <<>>

ReconcileService ==
  /\ pc = "reconcile"
  /\ \E o \in {"ok", "name_raises", "rejected", "post_raises"} :
       /\ Spend("reconcile", o,
                /\ BestName(svc[Head(todo)]) # <<>> /\ ~cfg.dry_run
                /\ o = "ok" /\ DOMAIN chan = ChanIds)
       /\ LET su == Head(todo)
              name == BestName(svc[su])
              free == ChanIds \ DOMAIN chan
              posts == name # <<>> /\ ~cfg.dry_run
          IN /\ (o = "name_raises") => NeedsIdnodeName(svc[su])
             /\ (o \in {"rejected", "post_raises"}) => posts
             /\ reqs' = IF posts /\ o # "name_raises"
                        THEN LogAt("reconcile", "chan_create", su) ELSE reqs
             /\ chan' = IF posts /\ o = "ok" /\ free # {}
                        THEN Put(chan, Min(free), NewChannel(name, su)) ELSE chan
             /\ stats' = IF o = "name_raises" THEN stats
                         ELSE IF name = <<>>
                         THEN [stats EXCEPT !.skipped_no_name = @ + 1]
                         ELSE IF cfg.dry_run \/ (o = "ok" /\ free # {})
                         THEN [stats EXCEPT !.created = @ + 1]
                         ELSE stats
       /\ IF o \in {"name_raises", "post_raises"} THEN Leave("raised")
          ELSE /\ Loop("reconcile", Tail(todo), NextPc("reconcile", cfg))
               /\ UNCHANGED <<result, dels, grid, index>>
  /\ UNCHANGED <<dog, tuner, walk, http, cfg, net, fe, schema, mux, svc, run, elapsed, timedOut, phases>>

(***************************************************************************)
(* Phase 10: cleanup_unnamed_channels                                      *)
(***************************************************************************)
CleanList ==
  /\ pc = "clean_list"
  /\ \E o \in {"ok", "grid_fails"} :
       /\ Spend("clean", o, FALSE)
       /\ phases' = Append(phases, "clean")
       /\ Loop("clean",
               IF o = "ok" THEN UnnamedChannels(chan, cfg.unnamed) ELSE <<>>,
               NextPc("clean", cfg))
  /\ UNCHANGED <<dog, tuner, walk, http, stats, cfg, backend, run, result, dels, grid, index, elapsed, timedOut,
                 reqs>>

\* delete_channel_uuid, whatever dry_run says.
CleanChannel ==
  /\ pc = "clean"
  /\ \E o \in {"ok", "fails"} :
       /\ Spend("clean", o, FALSE)
       /\ reqs' = LogAt("clean", "chan_delete", Head(todo))
       /\ chan' = IF o = "ok" THEN Drop(chan, Head(todo)) ELSE chan
       /\ Loop("clean", Tail(todo), NextPc("clean", cfg))
  /\ UNCHANGED <<dog, tuner, walk, http, stats, cfg, net, fe, schema, mux, svc, run, result, dels, grid, index,
                 elapsed, timedOut, phases>>

(***************************************************************************)
(* Phase 11: deduplicate_channels_by_name                                  *)
(***************************************************************************)
\* The three reads the phase begins with: the channel grid ([] on failure),
\* the mux health map (_get_json, outside any try), the service grid ([] on
\* failure); then the grouping and the sort of every group.
DedupList ==
  /\ pc = "dedup_list"
  /\ \E o \in {"ok", "grid_fails", "health_raises", "services_fail"} :
       /\ Spend("dedup", o, FALSE)
       /\ phases' = Append(phases, "dedup")
       /\ IF o = "health_raises" THEN Leave("raised")
          ELSE LET chans == IF o = "grid_fails" THEN <<>> ELSE chan
                   s2m == IF o = "services_fail" THEN <<>> ELSE ServiceToMux(svc)
                   good == GoodMuxes(GetMuxIndex(mux))
               IN /\ grid' = chans
                  /\ index' = [good |-> good, s2m |-> s2m, probes |-> <<>>]
                  /\ Loop("dedup", DedupGroups(chans, s2m, good), NextPc("dedup", cfg))
                  /\ UNCHANGED <<result, dels>>
  /\ UNCHANGED <<dog, tuner, walk, http, stats, cfg, backend, run, elapsed, timedOut, reqs>>

Others(group, canon) ==
  LET notCanon(u) == u # canon
  IN SelectSeq(group, notCanon)

\* The members the delete loop is run for: the non-canonical ones once the
\* save has returned true, none after "if not ok: continue" and in dry-run.
DeletesAnyway(saved, group, canon) == Others(group, canon)

DeletesAfterSave(saved, group, canon) ==
  IF saved THEN Others(group, canon) ELSE <<>>

\* One group up to the save of the canonical channel: the stream probes,
\* the idnode load of the canonical (outside any try), idnode_save_params.
DedupGroup ==
  /\ pc = "dedup"
  /\ \E o \in {"ok", "load_raises", "save_fails"}, aOk \in BOOLEAN, bOk \in BOOLEAN :
       /\ Spend("dedup", o, FALSE)
       /\ (o = "save_fails") => ~cfg.dry_run
       /\ LET group == Head(todo)
              canon == Canonical(group, grid, index.s2m, index.good,
                                 cfg.dry_run, aOk, bOk)
              probes == StreamProbes(group, grid, index.s2m, index.good,
                                     cfg.dry_run, aOk, bOk)
              merged == MergedServices(group, grid)
              saves == ~cfg.dry_run /\ o # "load_raises"
              rest == DeletesAfterSave(saves /\ o = "ok", group, canon)
          IN /\ (probes = <<>>) => (~aOk /\ ~bOk)
             /\ reqs' = IF saves THEN LogAt("dedup", "chan_save", canon) ELSE reqs
             /\ chan' = IF saves /\ o = "ok"
                        THEN [chan EXCEPT ![canon].services = merged] ELSE chan
             /\ IF o = "load_raises" THEN Leave("raised")
                ELSE IF rest # <<>>
                THEN /\ pc' = "dedup_del"
                     /\ dels' = rest
                     /\ index' = [index EXCEPT !.probes = probes]
                     /\ UNCHANGED <<result, todo, grid>>
                ELSE /\ Loop("dedup", Tail(todo), NextPc("dedup", cfg))
                     /\ index' = [index EXCEPT !.probes = probes]
                     /\ UNCHANGED <<result, dels, grid>>
  /\ UNCHANGED <<dog, tuner, walk, http, stats, cfg, net, fe, schema, mux, svc, run, elapsed, timedOut, phases>>

\* The delete of one non-canonical member.
DedupDelete ==
  /\ pc = "dedup_del"
  /\ \E o \in {"ok", "fails"} :
       /\ Spend("dedup", o, FALSE)
       /\ reqs' = LogAt("dedup", "chan_delete", Head(dels))
       /\ chan' = IF o = "ok" THEN Drop(chan, Head(dels)) ELSE chan
       /\ dels' = Tail(dels)
       /\ IF Tail(dels) = <<>>
          THEN Loop("dedup", Tail(todo), NextPc("dedup", cfg))
          ELSE UNCHANGED <<pc, todo>>
  /\ UNCHANGED <<dog, tuner, walk, http, stats, cfg, net, fe, schema, mux, svc, run, result, grid, index, elapsed,
                 timedOut, phases>>

(***************************************************************************)
(* Phase 12: debug_channel_service_mux_health (reads only)                 *)
(***************************************************************************)
HealthCheck ==
  /\ pc = "health"
  /\ \E o \in {"ok", "raises"} :
       /\ Spend("health", o, FALSE)
       /\ phases' = Append(phases, "health")
       /\ IF o = "raises" THEN Leave("raised")
          ELSE /\ pc' = NextPc("health", cfg)
               /\ grid' = <<>>
               /\ index' = <<>>
               /\ UNCHANGED <<result, todo, dels>>
  /\ UNCHANGED <<dog, tuner, walk, http, stats, cfg, backend, run, elapsed, timedOut, reqs>>

(***************************************************************************)
(* Phase 13: prune_invalid_services_per_channel                            *)
(***************************************************************************)
PruneList ==
  /\ pc = "prune_list"
  /\ \E o \in {"ok", "grid_fails", "index_raises"} :
       /\ Spend("prune", o, FALSE)
       /\ phases' = Append(phases, "prune")
       /\ IF o = "index_raises" THEN Leave("raised")
          ELSE LET chans == IF o = "grid_fails" THEN <<>> ELSE chan
               IN /\ grid' = chans
                  /\ index' = GetMuxIndex(mux)
                  /\ Loop("prune", SetToSeq(DOMAIN chans), NextPc("prune", cfg))
                  /\ UNCHANGED <<result, dels>>
  /\ UNCHANGED <<dog, tuner, walk, http, stats, cfg, backend, run, elapsed, timedOut, reqs>>

\* What the pruner does with a channel whose links are not all valid:
\* save the kept links, or delete the channel when none is kept.
PruneWriteSaveOnly(c, kept, chans) == [chans EXCEPT ![c].services = kept]

PruneWrite(c, kept, chans) ==
  IF kept # <<>> THEN [chans EXCEPT ![c].services = kept] ELSE Drop(chans, c)

\* One channel: service_is_acceptable for each link (its idnode load is
\* outside any try), the dry_run gate, the idnode load of the channel
\* (outside any try), then the save or the delete.
PruneChannel ==
  /\ pc = "prune"
  /\ \E o \in {"ok", "service_load_raises", "channel_load_raises", "write_fails"} :
       /\ Spend("prune", o, FALSE)
       /\ LET c == Head(todo)
              links == grid[c].services
              kept == KeptServices(links, svc, index)
              writes == links # <<>> /\ kept # links /\ ~cfg.dry_run
          IN /\ (o = "service_load_raises") => links # <<>>
             /\ (o \in {"channel_load_raises", "write_fails"}) => writes
             /\ reqs' = IF writes /\ o \in {"ok", "write_fails"}
                        THEN LogAt("prune", IF kept # <<>> THEN "chan_save"
                                            ELSE "chan_delete", c)
                        ELSE reqs
             /\ chan' = IF writes /\ o = "ok" THEN PruneWrite(c, kept, chan) ELSE chan
       /\ IF o \in {"service_load_raises", "channel_load_raises"} THEN Leave("raised")
          ELSE /\ Loop("prune", Tail(todo), NextPc("prune", cfg))
               /\ UNCHANGED <<result, dels, grid, index>>
  /\ UNCHANGED <<dog, tuner, walk, http, stats, cfg, net, fe, schema, mux, svc, run, elapsed, timedOut, phases>>

\* return True
Finish ==
  /\ pc = "finish"
  /\ Leave("true")
  /\ UNCHANGED <<dog, tuner, walk, http, stats, cfg, backend, run, elapsed, timedOut, reqs, phases, budget, faulty>>

\* scan() is called again.
ScanAgain ==
  /\ pc = "done"
  /\ run = 1
  /\ run' = 2
  /\ pc' = "epg"
  /\ result' = "none"
  /\ phases' = <<>>
  /\ elapsed' = 0
  /\ timedOut' = FALSE
  /\ UNCHANGED <<dog, tuner, walk, http, stats, cfg, backend, todo, dels, grid, index, reqs, budget, faulty>>

(***************************************************************************)
(* The states scan() is called in.                                         *)
(***************************************************************************)
DefaultUnnamed == {Placeholder}

Configs ==
  [dry_run : BOOLEAN, wipe : BOOLEAN, delete_unnamed : BOOLEAN,
   rf_start : {1}, rf_end : {2}, timeout : {MaxPolls}, unnamed : {DefaultUnnamed}]

IdleMux(n, en, r) ==
  [net |-> n, enabled |-> en, scan_state |-> "i0", scan_result |-> r,
   freq |-> RfToFreqHz(14)]

KnownService(m, n) ==
  [mux |-> m, net |-> "absent", svcname |-> n, name |-> <<>>, idname |-> <<>>]

OldChannel(n, links) ==
  [name |-> n, services |-> links, enabled |-> TRUE, number |-> <<>>]

LocalsWith(p, h) ==
  /\ pc = p
  /\ http = h
  /\ run = 1
  /\ result = "none"
  /\ todo = <<>>
  /\ dels = <<>>
  /\ grid = <<>>
  /\ index = <<>>
  /\ elapsed = 0
  /\ timedOut = FALSE
  /\ reqs = {}
  /\ phases = <<>>
  /\ faulty = {}
  /\ stats = <<>>
  /\ walk = NoWalk
  /\ tuner = <<>>
  /\ dog = <<>>

LocalsAt(p) == LocalsWith(p, NoCall)

ScanLocals == LocalsAt("epg")

InitBackend ==
  /\ cfg \in Configs
  /\ net \in BOOLEAN
  /\ fe = <<[enabled |-> FALSE, linked |-> FALSE]>>
  /\ schema = {"modulation", "scan_state"}
  /\ \E n \in {"uuid", "name"}, r \in {"i1", "i2"} : mux = <<IdleMux(n, TRUE, r)>>
  /\ svc = <<KnownService(1, NameA)>>
  /\ chan \in {<<OldChannel(NameA, <<1>>)>>,
               <<OldChannel(NameA, <<1>>), OldChannel(NameASpace, <<1>>)>>,
               <<OldChannel(NameA, <<1>>), OldChannel(NameB, <<>>)>>,
               <<OldChannel(Placeholder, <<1>>)>>}
  /\ ScanLocals

Init ==
  /\ InitBackend
  /\ budget = MaxFail

\* Two runs in a row, no operation failing.
InitTwice ==
  /\ InitBackend
  /\ budget = 0

ScanStep ==
  \/ EpgGrabbers \/ ResolveNetwork \/ FrontendsList \/ FrontendLoad \/ FrontendSave
  \/ WipeList \/ WipeMux \/ WipeFallback \/ CreateList \/ CreateMux \/ ForceList \/ ForceScanMux
  \/ PollStart \/ Poll
  \/ OrphansList \/ DeleteOrphan \/ DisableList \/ DisableMux
  \/ ReconcileList \/ ReconcileService \/ CleanList \/ CleanChannel
  \/ DedupList \/ DedupGroup \/ DedupDelete
  \/ HealthCheck \/ PruneList \/ PruneChannel \/ Finish

Next == ScanStep \/ BackendScanStart \/ BackendScanDone

Spec == Init /\ [][Next]_vars

NextTwice == Next \/ ScanAgain

SpecTwice == InitTwice /\ [][NextTwice]_vars

(***************************************************************************)
(* The pruner and the deduplicator on their own, from any backend state.   *)
(***************************************************************************)
MuxKinds ==
  {[net |-> "uuid", enabled |-> TRUE, scan_state |-> "i0", scan_result |-> "i1",
    freq |-> RfToFreqHz(14)],
   [net |-> "name", enabled |-> TRUE, scan_state |-> "i0", scan_result |-> "sok",
    freq |-> RfToFreqHz(14)],
   [net |-> "uuid", enabled |-> FALSE, scan_state |-> "i0", scan_result |-> "sOK",
    freq |-> RfToFreqHz(14)],
   [net |-> "uuid", enabled |-> TRUE, scan_state |-> "i0", scan_result |-> "sFAIL",
    freq |-> RfToFreqHz(14)],
   [net |-> "other", enabled |-> TRUE, scan_state |-> "i0", scan_result |-> "i1",
    freq |-> RfToFreqHz(14)]}

\* A service on mux m; 0 is a service without a mux field and MaxMux + 1 a
\* mux that is gone.
ServiceKinds ==
  {KnownService(m, NameA) : m \in 0..(MaxMux + 1)}
    \cup {[KnownService(1, NameA) EXCEPT !.net = "other"]}

\* MaxSvc + 1 is a link to a service that is gone.
LinkLists ==
  {<<>>} \cup {<<a>> : a \in 1..(MaxSvc + 1)}
    \cup {<<p[1], p[2]>> : p \in {q \in SvcIds \X (1..(MaxSvc + 1)) : q[1] # q[2]}}

StandaloneConfigs == {c \in Configs : ~c.wipe /\ ~c.delete_unnamed}

InitPrune ==
  /\ cfg \in StandaloneConfigs
  /\ net = TRUE
  /\ fe = <<[enabled |-> TRUE, linked |-> TRUE]>>
  /\ schema = {"modulation", "scan_state"}
  /\ mux \in [MuxIds -> MuxKinds]
  /\ svc \in [SvcIds -> ServiceKinds]
  /\ \E a \in LinkLists, b \in {<<>>, <<1>>, <<2>>, <<1, 2>>} :
       chan = <<OldChannel(NameA, a), OldChannel(NameB, b)>>
  /\ budget = MaxFail
  /\ LocalsAt("prune_list")

NextPrune == PruneList \/ PruneChannel

SpecPrune == InitPrune /\ [][NextPrune]_vars

InitDedup ==
  /\ cfg \in StandaloneConfigs
  /\ net = TRUE
  /\ fe = <<[enabled |-> TRUE, linked |-> TRUE]>>
  /\ schema = {"modulation", "scan_state"}
  /\ mux \in [MuxIds -> {k \in MuxKinds : k.net # "other"}]
  /\ svc = [su \in SvcIds |-> KnownService(IF su \in MuxIds THEN su ELSE 1, NameA)]
  /\ \E n2 \in {NameA, NameASpace}, n3 \in {NameA, NameB, Placeholder},
        e1 \in BOOLEAN, num \in {<<>>, <<5, 1>>},
        l1 \in LinkLists, l2 \in {<<>>, <<1>>, <<2>>, <<2, 1>>},
        l3 \in {<<>>, <<1>>, <<2>>} :
       chan = <<[OldChannel(NameA, l1) EXCEPT !.enabled = e1],
                [OldChannel(n2, l2) EXCEPT !.number = num],
                OldChannel(n3, l3)>>
  /\ budget = MaxFail
  /\ LocalsAt("dedup_list")

NextDedup == DedupList \/ DedupGroup \/ DedupDelete

SpecDedup == InitDedup /\ [][NextDedup]_vars

\* unnamed_channel_names as configured: the default, two other names, none.
MarkerSets == {DefaultUnnamed, {NameB, <<" ", "{name-not-set}">>}, {}}

\* The deduplicator over two groups, one of three channels and one of two,
\* in either order, with room for two failures.
GroupedNames == {<<NameB, NameB, NameA, NameASpace, NameA>>,
                 <<NameA, NameB, NameASpace, NameB, NameA>>}

InitDedupGroups ==
  /\ \E c \in StandaloneConfigs, ms \in MarkerSets : cfg = [c EXCEPT !.unnamed = ms]
  /\ net = TRUE
  /\ fe = <<[enabled |-> TRUE, linked |-> TRUE]>>
  /\ schema = {"modulation", "scan_state"}
  /\ mux = [m \in MuxIds |-> IdleMux("uuid", TRUE, "i1")]
  /\ svc = [su \in SvcIds |-> KnownService(IF su \in MuxIds THEN su ELSE 1, NameA)]
  /\ \E names \in GroupedNames, links \in [1..5 -> {<<>>, <<1>>, <<2>>}] :
       chan = [c \in 1..5 |-> OldChannel(names[c], links[c])]
  /\ budget = MaxFail + 1
  /\ LocalsAt("dedup_list")

SpecDedupGroups == InitDedupGroups /\ [][NextDedup]_vars

(***************************************************************************)
(* The reconciler on its own, over services named in every way.            *)
(***************************************************************************)
ServiceNames ==
  [svcname : {<<>>, <<" ">>, NameA},
   name : {<<>>, <<" ">>, <<"net", "/", "B">>, <<"B", "/", " ">>},
   idname : {<<>>, <<" ">>, NameASpace}]

NamedService(n) ==
  [mux |-> 1, net |-> "absent", svcname |-> n.svcname, name |-> n.name,
   idname |-> n.idname]

InitReconcile ==
  /\ cfg \in StandaloneConfigs
  /\ net = TRUE
  /\ fe = <<[enabled |-> TRUE, linked |-> TRUE]>>
  /\ schema = {"modulation", "scan_state"}
  /\ mux = <<IdleMux("uuid", TRUE, "i1")>>
  /\ \E f \in [SvcIds -> ServiceNames] : svc = [su \in SvcIds |-> NamedService(f[su])]
  /\ chan \in {<<>>, <<OldChannel(NameA, <<1>>)>>, <<OldChannel(NameB, <<2, 1>>)>>,
               <<OldChannel(NameA, <<MaxSvc + 1>>), OldChannel(Placeholder, <<2>>)>>}
  /\ budget = MaxFail
  /\ LocalsAt("reconcile_list")

NextReconcile == ReconcileList \/ ReconcileService

SpecReconcile == InitReconcile /\ [][NextReconcile]_vars

(***************************************************************************)
(* The create loop on its own, for one RF number of any value.             *)
(***************************************************************************)
InitCreate ==
  /\ \E c \in StandaloneConfigs, rf \in 0..MaxRf :
       cfg = [c EXCEPT !.rf_start = rf, !.rf_end = rf]
  /\ net = TRUE
  /\ fe = <<[enabled |-> TRUE, linked |-> TRUE]>>
  /\ schema \in SUBSET {"modulation", "scan_state"}
  /\ mux = <<IdleMux("uuid", TRUE, "i1")>>
  /\ svc = <<>>
  /\ chan = <<>>
  /\ budget = MaxFail
  /\ LocalsAt("create_list")

NextCreate == CreateList \/ CreateMux

SpecCreate == InitCreate /\ [][NextCreate]_vars

\* The create step over ranges that hold RF numbers with a frequency and
\* numbers without one, into a backend with room for every mux.
RfRanges == {<<0, 2>>, <<1, 2>>, <<35, 37>>, <<36, 38>>, <<3, 2>>}

InitCreateRange ==
  /\ \E c \in StandaloneConfigs, r \in RfRanges :
       cfg = [c EXCEPT !.rf_start = r[1], !.rf_end = r[2]]
  /\ net = TRUE
  /\ fe = <<[enabled |-> TRUE, linked |-> TRUE]>>
  /\ schema \in SUBSET {"modulation", "scan_state"}
  /\ mux = <<>>
  /\ svc = <<>>
  /\ chan = <<>>
  /\ budget = MaxFail + 1
  /\ LocalsAt("create_list")

SpecCreateRange == InitCreateRange /\ [][NextCreate]_vars

(***************************************************************************)
(* The health classification on its own, for mux records of every kind.    *)
(***************************************************************************)
MuxRecords ==
  [net : {"uuid", "name"}, enabled : BOOLEAN, scan_state : {"i0"},
   scan_result : ScanResults, freq : {RfToFreqHz(14)}]

InitClassify ==
  /\ cfg \in StandaloneConfigs
  /\ net = TRUE
  /\ fe = <<[enabled |-> TRUE, linked |-> TRUE]>>
  /\ schema = {"modulation", "scan_state"}
  /\ mux \in [MuxIds -> MuxRecords]
  /\ svc = <<>>
  /\ chan = <<>>
  /\ budget = MaxFail
  /\ LocalsAt("dedup_list")

NextClassify == DedupList

SpecClassify == InitClassify /\ [][NextClassify]_vars

(***************************************************************************)
(* The classifier and the pruner one after the other over the same mux     *)
(* records of every kind, each with a service that a channel links to.     *)
(***************************************************************************)
InitVerdicts ==
  /\ cfg \in StandaloneConfigs
  /\ net = TRUE
  /\ fe = <<[enabled |-> TRUE, linked |-> TRUE]>>
  /\ schema = {"modulation", "scan_state"}
  /\ mux \in [MuxIds -> MuxRecords]
  /\ \E n \in {"absent", "uuid", "other"} :
       svc = [su \in MuxIds |->
                [KnownService(su, NameA) EXCEPT !.net = IF su = 1 THEN "absent" ELSE n]]
  /\ chan = [c \in MuxIds |-> OldChannel(IF c = 1 THEN NameA ELSE NameB, <<c>>)]
  /\ budget = MaxFail
  /\ LocalsAt("dedup_list")

NextVerdicts == DedupList \/ HealthCheck \/ PruneList \/ PruneChannel

SpecVerdicts == InitVerdicts /\ [][NextVerdicts]_vars

(***************************************************************************)
(* scan() from the disabling of failed muxes to the end of the mapping,    *)
(* with ScanConfig.map_services_to_channels set either way.                *)
(***************************************************************************)
InitMapToggle ==
  /\ \E c \in StandaloneConfigs, b \in BOOLEAN : cfg = [map_services |-> b] @@ c
  /\ net = TRUE
  /\ fe = <<[enabled |-> TRUE, linked |-> TRUE]>>
  /\ schema = {"modulation", "scan_state"}
  /\ mux \in [MuxIds -> {IdleMux("uuid", TRUE, r) : r \in {"i1", "i2"}}]
  /\ svc \in [SvcIds -> {KnownService(1, n) : n \in {NameA, Blank}}]
  /\ chan \in {<<>>, <<OldChannel(NameA, <<1>>)>>}
  /\ budget = MaxFail
  /\ LocalsAt("disable_list")

NextMapToggle == DisableList \/ DisableMux \/ ReconcileList \/ ReconcileService

SpecMapToggle == InitMapToggle /\ [][NextMapToggle]_vars

(***************************************************************************)
(* One call of an HTTP helper on its own.                                  *)
(***************************************************************************)
RequestAttempt ==
  /\ http.at = "request"
  /\ \E o \in Outcomes : http' = Attempt(http, o)
  /\ UNCHANGED <<dog, tuner, walk, stats, cfg, backend, pc, run, result, todo, dels, grid, index, elapsed,
                 timedOut, reqs, phases, budget, faulty>>

HelperStep ==
  /\ http.at = "after"
  /\ \E hasClass \in BOOLEAN : http' = After(http, hasClass)
  /\ UNCHANGED <<dog, tuner, walk, stats, cfg, backend, pc, run, result, todo, dels, grid, index, elapsed,
                 timedOut, reqs, phases, budget, faulty>>

InitHelper ==
  /\ cfg \in {c \in StandaloneConfigs : ~c.dry_run}
  /\ net = TRUE
  /\ fe = <<[enabled |-> TRUE, linked |-> TRUE]>>
  /\ schema = {"modulation", "scan_state"}
  /\ mux = <<>>
  /\ svc = <<>>
  /\ chan = <<>>
  /\ budget = 0
  /\ \E op \in {"get", "post", "save_params", "save"}, known \in BOOLEAN :
       LocalsWith("idle", Call(op, known))

NextHelper == RequestAttempt \/ HelperStep

SpecHelper == InitHelper /\ [][NextHelper]_vars

(***************************************************************************)
(* The frontend configurator on its own, run twice.                        *)
(***************************************************************************)
FrontendsAgain ==
  /\ pc = "create_list"
  /\ run = 1
  /\ run' = 2
  /\ pc' = "frontends"
  /\ UNCHANGED <<dog, tuner, walk, http, stats, cfg, backend, result, todo, dels, grid, index, elapsed,
                 timedOut, reqs, phases, budget, faulty>>

InitFrontends ==
  /\ cfg \in StandaloneConfigs
  /\ net = TRUE
  /\ fe \in [FeIds -> [enabled : BOOLEAN, linked : BOOLEAN]]
  /\ schema = {"modulation", "scan_state"}
  /\ mux = <<>>
  /\ svc = <<>>
  /\ chan = <<>>
  /\ budget = MaxFail
  /\ LocalsAt("frontends")

NextFrontends == FrontendsList \/ FrontendLoad \/ FrontendSave \/ FrontendsAgain

SpecFrontends == InitFrontends /\ [][NextFrontends]_vars

(***************************************************************************)
(* The poll loop on its own, the tuners working meanwhile; the loop is a    *)
(* thread of its own and is always scheduled again after its sleep.         *)
(***************************************************************************)
PollMuxes ==
  [net : {"uuid", "name", "other"}, enabled : {TRUE},
   scan_state : {"i0", "i1", "i2", "sACTIVE"},
   scan_result : {"i0"}, freq : {RfToFreqHz(14)}]

InitPoll ==
  /\ cfg \in StandaloneConfigs
  /\ net = TRUE
  /\ fe = <<[enabled |-> TRUE, linked |-> TRUE]>>
  /\ schema = {"modulation", "scan_state"}
  /\ mux \in [MuxIds -> PollMuxes]
  /\ svc = <<>>
  /\ chan = <<>>
  /\ budget = MaxFail
  /\ LocalsAt("poll0")

NextPoll == PollStart \/ Poll \/ BackendScanStart \/ BackendScanDone

SpecPoll == InitPoll /\ [][NextPoll]_vars /\ WF_vars(PollStart \/ Poll)

(***************************************************************************)
(* The wipe step on its own, over muxes of this and of another network,    *)
(* with services on them and channels linked to the services.              *)
(***************************************************************************)
InitWipe ==
  /\ cfg \in {c \in Configs : c.wipe /\ ~c.delete_unnamed}
  /\ net = TRUE
  /\ fe = <<[enabled |-> TRUE, linked |-> TRUE]>>
  /\ schema = {"modulation", "scan_state"}
  /\ mux \in [MuxIds -> {IdleMux(n, TRUE, r) : n \in {"uuid", "other"}, r \in {"i1", "i2"}}]
  /\ svc \in [SvcIds -> {KnownService(m, NameA) : m \in MuxIds}]
  /\ chan \in {<<OldChannel(NameA, l)>> : l \in {<<>>, <<1>>, <<1, 2>>}}
  /\ budget = MaxFail
  /\ LocalsAt("wipe_list")

NextWipe == WipeList \/ WipeMux \/ WipeFallback

SpecWipe == InitWipe /\ [][NextWipe]_vars

(***************************************************************************)
(* disable_failed_muxes on its own, over muxes of this network (by uuid    *)
(* and by name) and of another, enabled or not, with every scan result.    *)
(***************************************************************************)
InitDisable ==
  /\ cfg \in StandaloneConfigs
  /\ net = TRUE
  /\ fe = <<[enabled |-> TRUE, linked |-> TRUE]>>
  /\ schema = {"modulation", "scan_state"}
  /\ mux \in [MuxIds -> {IdleMux(n, en, r) : n \in {"uuid", "name", "other"},
                                             en \in BOOLEAN,
                                             r \in {"i1", "i2", "sFAIL", "sok"}}]
  /\ svc = <<>>
  /\ chan = <<>>
  /\ budget = MaxFail
  /\ LocalsAt("disable_list")

NextDisable == DisableList \/ DisableMux

SpecDisable == InitDisable /\ [][NextDisable]_vars

(***************************************************************************)
(* The two cleaning passes on their own, each from channels with and       *)
(* without services under names of every kind, for several marker sets.    *)
(***************************************************************************)
InitClean ==
  /\ \E c \in StandaloneConfigs, ms \in MarkerSets : cfg = [c EXCEPT !.unnamed = ms]
  /\ net = TRUE
  /\ fe = <<[enabled |-> TRUE, linked |-> TRUE]>>
  /\ schema = {"modulation", "scan_state"}
  /\ mux = <<IdleMux("uuid", TRUE, "i1")>>
  /\ svc = <<KnownService(1, NameA)>>
  /\ chan \in [ChanIds -> {OldChannel(n, l) :
                             n \in {NameA, NameB, <<" ">>, <<"{name-not-set}", " ">>},
                             l \in {<<>>, <<1>>}}]
  /\ budget = MaxFail
  /\ \E p \in {"orphans_list", "clean_list"} : LocalsAt(p)

NextClean == OrphansList \/ DeleteOrphan \/ CleanList \/ CleanChannel

SpecClean == InitClean /\ [][NextClean]_vars

(***************************************************************************)
(* The tree walk on its own, over every tree of MaxNode + 1 nodes, cycles  *)
(* and repeated ids included; the generator is always resumed.             *)
(***************************************************************************)
WalkStep ==
  /\ walk.stack # <<>>
  /\ ~walk.raised
  /\ \E o \in {"ok", "no_list", "raises"} : walk' = WalkTurn(walk, o)
  /\ UNCHANGED <<dog, tuner, http, stats, cfg, backend, pc, run, result, todo, dels, grid, index,
                 elapsed, timedOut, reqs, phases, budget, faulty>>

InitWalk ==
  /\ cfg \in {c \in StandaloneConfigs : ~c.dry_run}
  /\ net = TRUE
  /\ fe = <<[enabled |-> TRUE, linked |-> TRUE]>>
  /\ schema = {"modulation", "scan_state"}
  /\ mux = <<>>
  /\ svc = <<>>
  /\ chan = <<>>
  /\ budget = 0
  /\ pc = "frontends" /\ http = NoCall /\ run = 1 /\ result = "none"
  /\ todo = <<>> /\ dels = <<>> /\ grid = <<>> /\ index = <<>>
  /\ elapsed = 0 /\ timedOut = FALSE /\ reqs = {} /\ phases = <<>>
  /\ faulty = {} /\ stats = <<>> /\ tuner = <<>> /\ dog = <<>>
  /\ \E t \in [NodeIds -> ChildLists] : walk = [NoWalk EXCEPT !.tree = t, !.stack = <<0>>]

SpecWalk == InitWalk /\ [][WalkStep]_vars /\ WF_vars(WalkStep)

(***************************************************************************)
(* tuner.py: the Tuner.  Time is a clock of whole units that time.time()   *)
(* reads; "" stands for None; loads is what mpv was told to load: the url, *)
(* the time, and by whom (_fire_tune, a retry of _tick_state, reload).     *)
(* The channel names and the status message are left out.  asked is       *)
(* history: the urls of the request_tune calls of the latest burst, a     *)
(* burst being calls that each come before the deadline of the one before. *)
(***************************************************************************)
MaxNow == 6
MaxLoads == 3

Urls == {"u1", "u2"}

Load(t, by) == [url |-> t.current_url, at |-> t.now, by |-> by]

\* _fire_tune
FireTune(t, url) ==
  LET s == [t EXCEPT !.current_url = url, !.started_at = t.now,
                     !.attempts = 0, !.state = "TUNING"]
  IN [s EXCEPT !.loads = Append(@, Load(s, "tune"))]

\* reload
Reload(t) ==
  IF t.current_url = "" THEN t
  ELSE [t EXCEPT !.loads = Append(@, Load(t, "reload")), !.started_at = t.now,
                 !.attempts = 0, !.state = "TUNING"]

\* "if self._pending_url and now >= self._debounce_deadline"
DebounceOverAtOnce(t) == t.pending_url # ""

DebounceOver(t) == t.pending_url # "" /\ t.now >= t.deadline

\* "if did_render_frame and time_since_tune > self._frame_grace_s"
GotFrameAtOnce(t, frame) == frame

GotFrame(t, frame) == frame /\ t.now - t.started_at > t.frame_grace_s

\* _tick_state after the pending tune: the transitions out of TUNING.
TickTuning(t, frame) ==
  IF t.state # "TUNING" THEN t
  ELSE IF GotFrame(t, frame) THEN [t EXCEPT !.state = "PLAYING"]
  ELSE IF t.now - t.started_at > t.tune_timeout_s
  THEN IF t.attempts < t.max_retries
       THEN [t EXCEPT !.attempts = @ + 1, !.started_at = t.now,
                      !.loads = IF t.current_url # ""
                                THEN Append(@, Load(t, "retry")) ELSE @]
       ELSE [t EXCEPT !.state = "FAILED"]
  ELSE t

\* request_tune
RequestTune ==
  /\ \E url \in Urls :
       tuner' = [tuner EXCEPT !.pending_url = url,
                              !.deadline = tuner.now + tuner.debounce_s,
                              !.asked = IF tuner.pending_url # "" /\ tuner.now < tuner.deadline
                                        THEN @ \cup {url} ELSE {url}]
  /\ UNCHANGED <<dog, walk, http, stats, cfg, backend, pc, run, result, todo, dels, grid, index,
                 elapsed, timedOut, reqs, phases, budget, faulty>>

\* tune_now
TuneNow ==
  /\ \E url \in Urls :
       tuner' = [tuner EXCEPT !.pending_url = url, !.deadline = 0, !.asked = {}]
  /\ UNCHANGED <<dog, walk, http, stats, cfg, backend, pc, run, result, todo, dels, grid, index,
                 elapsed, timedOut, reqs, phases, budget, faulty>>

\* cancel
Cancel ==
  /\ tuner' = [tuner EXCEPT !.pending_url = "", !.state = "IDLE", !.asked = {}]
  /\ UNCHANGED <<dog, walk, http, stats, cfg, backend, pc, run, result, todo, dels, grid, index,
                 elapsed, timedOut, reqs, phases, budget, faulty>>

\* _process_watchdog: a reload when the watchdog has queued one.
ProcessWatchdog(t, queued) == IF queued THEN Reload(t) ELSE t

\* _tick_state
TickState(t, frame) ==
  TickTuning(IF DebounceOver(t)
             THEN [FireTune(t, t.pending_url) EXCEPT !.pending_url = ""]
             ELSE t, frame)

\* tick(did_render_frame)
TickWith(frame, queued) ==
  /\ tuner' = TickState(ProcessWatchdog(tuner, queued), frame)
  /\ Len(tuner'.loads) <= MaxLoads
  /\ UNCHANGED <<dog, walk, http, stats, cfg, backend, pc, run, result, todo, dels, grid, index,
                 elapsed, timedOut, reqs, phases, budget, faulty>>

Tick == \E frame \in BOOLEAN, queued \in BOOLEAN : TickWith(frame, queued)

\* Time passes between two calls.
Tock ==
  /\ tuner.now < MaxNow
  /\ tuner' = [tuner EXCEPT !.now = @ + 1]
  /\ UNCHANGED <<dog, walk, http, stats, cfg, backend, pc, run, result, todo, dels, grid, index,
                 elapsed, timedOut, reqs, phases, budget, faulty>>

\* Tuner.__init__ with the given sets of its four timing parameters.
TunerWith(debounces, timeouts, retries, graces) ==
  /\ cfg = CHOOSE c \in StandaloneConfigs : ~c.dry_run
  /\ net = TRUE
  /\ fe = <<[enabled |-> TRUE, linked |-> TRUE]>>
  /\ schema = {"modulation", "scan_state"}
  /\ mux = <<>>
  /\ svc = <<>>
  /\ chan = <<>>
  /\ budget = 0
  /\ pc = "done" /\ http = NoCall /\ run = 1 /\ result = "none"
  /\ todo = <<>> /\ dels = <<>> /\ grid = <<>> /\ index = <<>>
  /\ elapsed = 0 /\ timedOut = FALSE /\ reqs = {} /\ phases = <<>>
  /\ faulty = {} /\ stats = <<>> /\ walk = NoWalk /\ dog = <<>>
  /\ \E d \in debounces, tt \in timeouts, r \in retries, g \in graces :
       tuner = [debounce_s |-> d, tune_timeout_s |-> tt, max_retries |-> r,
                frame_grace_s |-> g, state |-> "IDLE", current_url |-> "",
                pending_url |-> "", deadline |-> 0, started_at |-> 0, attempts |-> 0,
                now |-> 0, loads |-> <<>>, asked |-> {}]

InitTuner == TunerWith({1}, {1, 2}, 0..2, {0, 1})

InitDebounce == TunerWith({1, 2}, {2}, {1}, {0, 1})

NextTuner == RequestTune \/ TuneNow \/ Cancel \/ Tick \/ Tock

SpecTuner == InitTuner /\ [][NextTuner]_vars

SpecDebounce == InitDebounce /\ [][NextTuner]_vars

(***************************************************************************)
(* tvh.py: TVHWatchdog.check_and_fix.  Time is in whole seconds and the    *)
(* caller's now never goes back; -1 stands for None.  The record keeps the *)
(* two fields of the object, what the last call saw and returned, and as   *)
(* history: streak, the time of the first of the bad observations that     *)
(* nothing but calls that saw nothing separate from now; fixed_at and      *)
(* prev_fix, the times of the last two corrective actions.                 *)
(***************************************************************************)
MaxClock == 8

RateLimit == 1
StuckGrace == 2
StaleAge == 3

MissingGraces == {0, 1, 3}

Lower(s) == IF s \in {"Bad", "BAD"} THEN "bad" ELSE s

Subscriptions ==
  [state : {"Running", "Bad", "BAD"}, errors : {0, 1}, in : {0, 1}, out : {0, 1},
   start : {0, 1}]

\* looks_stuck
LooksStuck(sub, now) ==
  LET age == IF sub.start # 0 THEN now - sub.start ELSE 0
  IN \/ Lower(sub.state) = "bad"
     \/ sub.errors > 0
     \/ (age > StaleAge /\ sub.in = 0 /\ sub.out = 0)

\* What a call observes: ours is <<>> when find_our_subscription returns
\* None, and holds the subscription otherwise.
Seen(ours, expecting, now) ==
  IF ours = <<>> THEN IF expecting THEN "missing" ELSE "idle"
  ELSE IF LooksStuck(ours[1], now) THEN "stuck" ELSE "healthy"

\* How long the condition must have lasted before the call acts.
GraceOfMissing(seen, missing_grace_s) == missing_grace_s

Grace(seen, missing_grace_s) ==
  IF seen = "missing" THEN missing_grace_s ELSE StuckGrace

\* The body of check_and_fix once the subscriptions were fetched.
Checked(d, seen, grace) ==
  LET s == [d EXCEPT !.seen = seen, !.grace = grace,
                     !.streak = IF seen \in {"idle", "healthy"} THEN -1
                                ELSE IF @ = -1 THEN d.now ELSE @]
  IN IF seen \in {"idle", "healthy"} THEN [s EXCEPT !.bad_since = -1]
     ELSE IF d.bad_since = -1 THEN [s EXCEPT !.bad_since = d.now]
     ELSE IF d.now - d.bad_since < Grace(seen, grace) THEN s
     ELSE [s EXCEPT !.last_fix = d.now, !.bad_since = d.now, !.acted = TRUE,
                    !.fixed_at = d.now, !.prev_fix = d.fixed_at]

\* check_and_fix(now, mpv, current_url, expecting, missing_grace_s)
CheckAndFix ==
  /\ \E now \in dog.now..Min({dog.now + 2, MaxClock}), raises \in BOOLEAN,
        ours \in {<<>>} \cup {<<s>> : s \in Subscriptions}, expecting \in BOOLEAN,
        grace \in MissingGraces :
       LET d == [dog EXCEPT !.now = now, !.acted = FALSE, !.seen = "nothing"]
       IN dog' = IF now - dog.last_fix < RateLimit \/ raises THEN d
                 ELSE Checked(d, Seen(ours, expecting, now), grace)
  /\ UNCHANGED <<tuner, walk, http, stats, cfg, backend, pc, run, result, todo, dels, grid, index,
                 elapsed, timedOut, reqs, phases, budget, faulty>>

\* TVHWatchdog.__init__
InitDog ==
  /\ cfg = CHOOSE c \in StandaloneConfigs : ~c.dry_run
  /\ net = TRUE
  /\ fe = <<[enabled |-> TRUE, linked |-> TRUE]>>
  /\ schema = {"modulation", "scan_state"}
  /\ mux = <<>>
  /\ svc = <<>>
  /\ chan = <<>>
  /\ budget = 0
  /\ pc = "done" /\ http = NoCall /\ run = 1 /\ result = "none"
  /\ todo = <<>> /\ dels = <<>> /\ grid = <<>> /\ index = <<>>
  /\ elapsed = 0 /\ timedOut = FALSE /\ reqs = {} /\ phases = <<>>
  /\ faulty = {} /\ stats = <<>> /\ walk = NoWalk /\ tuner = <<>>
  /\ dog = [bad_since |-> -1, last_fix |-> 0, now |-> 1, seen |-> "nothing", grace |-> 0,
            acted |-> FALSE, streak |-> -1, fixed_at |-> -1, prev_fix |-> -1]

SpecDog == InitDog /\ [][CheckAndFix]_vars

(***************************************************************************)
(* Properties                                                              *)
(***************************************************************************)
Returned(res) == pc = "done" /\ result = res

ThisRun(phase) == [run |-> run, phase |-> phase]

Sent(phase, kind) ==
  \E r \in reqs : r.run = run /\ r.phase = phase /\ r.kind = kind

ChannelKinds == {"chan_create", "chan_save", "chan_delete"}

\* C1: the second of two runs of scan() in a row sends no create request
\* (mux or channel) and no delete request (mux or channel).
C1_SecondRunCreatesAndDeletesNothing ==
  \A r \in reqs :
    r.run = 2 => r.kind \notin {"mux_create", "mux_delete", "chan_create", "chan_delete"}

\* A link to a service whose mux is in the target network's index, enabled
\* and with scan_result OK, on the backend as it is now.
GoodLink(su) ==
  /\ su \in DOMAIN svc
  /\ svc[su].mux \in DOMAIN mux
  /\ mux[svc[su].mux].net \in {"uuid", "name"}
  /\ mux[svc[su].mux].enabled
  /\ mux[svc[su].mux].scan_result \in {"i1", "sOK", "sok"}

\* grid holds the channels as the pass found them.
PrunePostcondition ==
  /\ \A c \in DOMAIN chan : \A su \in Range(chan[c].services) : GoodLink(su)
  /\ \A c \in DOMAIN grid :
       (grid[c].services # <<>> /\ \A su \in Range(grid[c].services) : ~GoodLink(su))
         => c \notin DOMAIN chan

PruneCompleted == pc = "finish" /\ ThisRun("prune") \notin faulty

\* C2 as stated: after the pruner completes with every request succeeding,
\* every link of every surviving channel is to a service whose mux is in
\* the network's index, enabled and OK, and every channel whose links were
\* all invalid is gone.
C2_PrunePostcondition == PruneCompleted => PrunePostcondition

\* C2 as amended: the same, with dry_run off.
C2_PrunePostconditionWithoutDryRun ==
  (PruneCompleted /\ ~cfg.dry_run) => PrunePostcondition

C2_Witness ==
  /\ PruneCompleted /\ ~cfg.dry_run
  /\ Sent("prune", "chan_save") /\ Sent("prune", "chan_delete")

\* Two existing channels share a trimmed name that is neither blank nor
\* the placeholder.
DuplicateNames ==
  \E c \in DOMAIN chan, d \in DOMAIN chan :
    /\ c # d
    /\ Strip(chan[c].name) = Strip(chan[d].name)
    /\ Strip(chan[c].name) \notin {<<>>, Placeholder}

GoodCount(ch) ==
  Cardinality({i \in 1..Len(ch.services) : GoodLink(ch.services[i])})

SameName(c, chans) ==
  {d \in DOMAIN chans : Strip(chans[d].name) = Strip(chans[c].name)}

\* c is in a group of two or more in which it has strictly more good
\* services than every other member.
StrictlyBest(c) ==
  /\ Strip(grid[c].name) \notin {<<>>, Placeholder}
  /\ SameName(c, grid) # {c}
  /\ \A d \in SameName(c, grid) \ {c} : GoodCount(grid[c]) > GoodCount(grid[d])

DedupPostcondition ==
  \A c \in DOMAIN grid :
    StrictlyBest(c) =>
      /\ c \in DOMAIN chan
      /\ {d \in DOMAIN chan : Strip(chan[d].name) = Strip(grid[c].name)} = {c}
      /\ Range(chan[c].services)
           = UNION {Range(grid[d].services) : d \in SameName(c, grid)}

DedupCompleted == pc = "health" /\ ThisRun("dedup") \notin faulty

\* C4 as stated: after the deduplicator has run over a group in which one
\* member has strictly more good services than every other, exactly one
\* channel of that name remains, it is that member, and its services are
\* the union of the services of all members.
C4_StrictlyBestMemberSurvives == DedupCompleted => DedupPostcondition

\* C4 as amended: the same, with dry_run off.
C4_StrictlyBestMemberSurvivesWithoutDryRun ==
  (DedupCompleted /\ ~cfg.dry_run) => DedupPostcondition

C4_Witness ==
  /\ DedupCompleted /\ ~cfg.dry_run
  /\ \E c \in DOMAIN grid : StrictlyBest(c) /\ Cardinality(SameName(c, grid)) = 3
  /\ Sent("dedup", "chan_delete")

EmptyChannel == \E c \in DOMAIN chan : chan[c].services = <<>>

Listed(p) == p \notin {"epg", "health"}

PhaseOrder(withWipe, withClean) ==
  <<"resolve", "frontends">> \o (IF withWipe THEN <<"wipe">> ELSE <<>>)
    \o <<"create", "force", "poll", "orphans", "disable", "reconcile">>
    \o (IF withClean THEN <<"clean">> ELSE <<>>) \o <<"dedup", "prune">>

ChannelRequestsOnlyAfterPoll ==
  (\E r \in reqs : r.run = run /\ r.kind \in ChannelKinds) =>
    /\ "poll" \in Range(phases)
    /\ pc \notin {"poll0", "poll"}
    /\ ~timedOut

\* C8 as stated: every successful run goes through all twelve phases in
\* order, only the wipe being optional.
C8_AllPhasesInOrder ==
  /\ Returned("true") => SelectSeq(phases, Listed) = PhaseOrder(cfg.wipe, TRUE)
  /\ ChannelRequestsOnlyAfterPoll

\* C8 as amended: every successful run goes through the phases in order,
\* the wipe only when wipe_existing_muxes is set and the placeholder
\* cleanup only when delete_unnamed_channels is set; no channel request is
\* sent before the poll loop has seen the muxes settled, and the prune is
\* the last phase.
C8_PhasesInOrderWithOptionalClean ==
  /\ Returned("true") =>
       SelectSeq(phases, Listed) = PhaseOrder(cfg.wipe, cfg.delete_unnamed)
  /\ ChannelRequestsOnlyAfterPoll

C8_Witness ==
  /\ Returned("true") /\ ~cfg.delete_unnamed /\ cfg.wipe
  /\ Sent("reconcile", "chan_create")

\* C9: with dry_run set, scan() sends no mutating request.
C9_DryRunSendsNoMutation == cfg.dry_run => reqs = {}

\* C10: scan() always ends by returning True or False; no failure of a
\* single request raises out of it.
C10_ScanNeverRaises == result # "raised"

AllBlanks(n) == \A i \in 1..Len(n) : n[i] = " "

\* No fallback gives the service a name: its svcname field, its name field
\* and the svcname parameter of its idnode are all absent or blank.
Nameless(s) == AllBlanks(s.svcname) /\ AllBlanks(s.name) /\ AllBlanks(s.idname)

ReconcileCompleted == pc = "dedup_list" /\ stats # <<>>

\* C11: the reconciler's turn for a service that no fallback names creates
\* no channel and sends nothing; it adds one to skipped_no_name and leaves
\* every channel, and so the service's being unreferenced, as it was.
C11_NamelessServiceGetsNoChannel ==
  [][(pc = "reconcile" /\ Nameless(svc[Head(todo)]) /\ result' # "raised")
       => /\ chan' = chan
          /\ reqs' = reqs
          /\ stats'.skipped_no_name = stats.skipped_no_name + 1
          /\ stats'.created = stats.created]_vars

C11_Witness ==
  /\ ReconcileCompleted /\ ~cfg.dry_run
  /\ stats.skipped_no_name >= 1 /\ stats.created >= 1
  /\ \E su \in DOMAIN svc : Nameless(svc[su]) /\ su \notin MappedServices(chan)

\* C12: every step of the reconciler leaves every existing channel as it
\* was, sends nothing but channel creates, and every channel it adds holds
\* exactly one service, one that no channel referenced.
C12_ReconcilerOnlyAdds ==
  [][(pc \in {"reconcile_list", "reconcile"})
       => /\ \A c \in DOMAIN chan : c \in DOMAIN chan' /\ chan'[c] = chan[c]
          /\ \A r \in reqs' \ reqs : r.kind = "chan_create"
          /\ \A c \in DOMAIN chan' \ DOMAIN chan :
               \E su \in DOMAIN svc :
                 chan'[c].services = <<su>> /\ su \notin MappedServices(chan)]_vars

\* The frequency the claim gives for an RF number of 2..36.
StatedFreq(rf) ==
  IF rf \in 2..6 THEN <<57000000, 63000000, 69000000, 79000000, 85000000>>[rf - 1]
  ELSE IF rf \in 7..13 THEN 177000000 + (rf - 7) * 6000000
  ELSE 473000000 + (rf - 14) * 6000000

CreateCompleted == pc = "force_list"

CreatedMuxes == DOMAIN mux \ {1}

\* C13: the create loop's turn for RF number rf asks for a mux of the
\* stated frequency when rf is in 2..36, and rf_to_freq_hz fails, so that
\* nothing is asked for, when rf is outside 2..36.
C13_RfToFreqHzTableAndRange ==
  CreateCompleted =>
    IF cfg.rf_start \in 2..36
    THEN /\ \A m \in CreatedMuxes : mux[m].freq = StatedFreq(cfg.rf_start)
         /\ (ThisRun("create") \notin faulty) => CreatedMuxes # {}
    ELSE /\ RfToFreqHz(cfg.rf_start) = FreqError
         /\ ~Sent("create", "mux_create")
         /\ CreatedMuxes = {}

Classified == pc = "health" /\ index # <<>>

\* C14 as stated: a mux record is classified good exactly when it is
\* enabled and its scan_result is the number 1 or the string "OK".
C14_GoodIffEnabledAndOk ==
  Classified =>
    \A m \in DOMAIN mux :
      (m \in index.good) <=> (mux[m].enabled /\ mux[m].scan_result \in {"i1", "sOK"})

\* C14 as amended: a mux record is classified good exactly when it is
\* enabled and its scan_result is the number 1 (or JSON true, which is the
\* integer 1 to the code) or a string that is "OK" in any letter case.
C14_GoodIffEnabledAndOkInAnyCase ==
  Classified =>
    \A m \in DOMAIN mux :
      (m \in index.good)
        <=> (mux[m].enabled /\ mux[m].scan_result \in {"i1", "bTrue", "sOK", "sok", "sOk"})

C14_Witness ==
  /\ Classified
  /\ \E m \in DOMAIN mux : m \in index.good /\ mux[m].scan_result = "sok"
  /\ \E m \in DOMAIN mux : m \notin index.good /\ ~mux[m].enabled
                             /\ mux[m].scan_result = "i1"

\* The attempts of the call of _request that carried payload enc.
AttemptsOf(enc) ==
  LET mine(x) == x.enc = enc
  IN SelectSeq(http.sent, mine)

Transient(o) == o = "conn_error" \/ o = "s500"

\* C15: a call of _request makes at most 3 attempts; every attempt but its
\* last ended in a connection error or a 5xx; it goes on after such an
\* attempt while fewer than 3 were made; it ends with the response of any
\* other status at once, with the error raised after a third connection
\* error and with the response after a third 5xx.
C15_RequestRetriesTransientUpToThree ==
  \A enc \in {"plain_get", "plain_post", "load", "node", "node[]", "legacy"} :
    LET a == AttemptsOf(enc)
    IN /\ Len(a) <= 3
       /\ \A k \in 1..(Len(a) - 1) : Transient(a[k].outcome)
       /\ (http.enc = enc /\ http.at = "request" /\ a # <<>>)
            => Transient(a[Len(a)].outcome) /\ Len(a) < 3
       /\ (http.enc = enc /\ http.at = "after")
            => /\ a # <<>>
               /\ Transient(a[Len(a)].outcome) => Len(a) = 3
               /\ http.last = IF a[Len(a)].outcome = "conn_error" THEN "raised"
                              ELSE a[Len(a)].outcome

C15_Witness ==
  /\ http.op = "get" /\ http.at = "after" /\ http.last = "s500"
  /\ Len(http.sent) = 3 /\ http.sent[1].outcome = "conn_error"

\* C16: a POST whose attempt ended in a connection error or a 5xx is not
\* followed by another attempt with the same payload.
C16_FailedWriteNotResent ==
  \A k \in 1..(Len(http.sent) - 1) :
    (http.sent[k].method = "POST" /\ Transient(http.sent[k].outcome))
      => http.sent[k + 1].enc # http.sent[k].enc

Posted(enc) == \E k \in 1..Len(http.sent) : http.sent[k].enc = enc

Accepted(enc) ==
  \E k \in 1..Len(http.sent) : http.sent[k].enc = enc /\ http.sent[k].outcome = "s200"

\* C17: idnode_save_params sends {node}, then {node[]}, then the legacy
\* form, each only after the one before it was rejected; it returns True
\* at the first 200 and False only after all three were rejected.
C17_SaveTriesThreeEncodingsInOrder ==
  (http.op = "save_params") =>
    /\ Posted("node[]") => (Posted("node") /\ ~Accepted("node"))
    /\ Posted("legacy") => (Posted("node[]") /\ ~Accepted("node[]"))
    /\ (http.at = "done" /\ http.ret = "true")
         => (Accepted("node") \/ Accepted("node[]") \/ Accepted("legacy"))
    /\ (http.at = "done" /\ http.ret = "false")
         => (Posted("node") /\ Posted("node[]") /\ Posted("legacy"))

(***************************************************************************)
(* C18: the frontend configurator.                                          *)
(***************************************************************************)
AlreadyCorrect(f) == fe[f].enabled /\ fe[f].linked

\* A step of the configurator, as against one of the backend.
Acts == <<pc, todo>>' # <<pc, todo>>

VisitEnds == pc \in {"frontend", "frontend_save"} /\ todo' # todo

SavedNow(f) == FrontendSaveOf(f) \in reqs' /\ FrontendSaveOf(f) \notin reqs

SavesAllTookEffect ==
  \A r \in reqs : (r.run = 1 /\ r.kind = "frontend_save") => AlreadyCorrect(r.id)

SecondRunSaves == {r \in reqs : r.run = 2 /\ r.kind = "frontend_save"}

\* C18 as stated: no save for a matched frontend that is already enabled and
\* linked, exactly one save for every other matched frontend, and no save in
\* a second run after a run whose saves all took effect.
C18_OneSavePerUnconfiguredFrontend ==
  [][/\ VisitEnds =>
          IF ~AlreadyCorrect(Head(todo))
          THEN SavedNow(Head(todo)) /\ reqs' = reqs \cup {FrontendSaveOf(Head(todo))}
          ELSE reqs' = reqs
     /\ (run = 2 /\ SavesAllTookEffect) => reqs' = reqs]_vars

\* C18: no save for a matched frontend that is already enabled and linked;
\* with dry_run off, exactly one save for every other matched frontend whose
\* idnode load returns an entry, and none in dry-run; a second run after a
\* run in which no request failed issues no save.
C18_OneSavePerLoadedUnconfiguredFrontend ==
  [][/\ (pc = "frontend" /\ Acts) =>
          /\ reqs' = reqs
          /\ (pc' = "frontend_save") => ~AlreadyCorrect(Head(todo))
          /\ (budget' = budget /\ ~AlreadyCorrect(Head(todo))) => pc' = "frontend_save"
     /\ (pc = "frontend_save" /\ Acts) =>
          /\ ~AlreadyCorrect(Head(todo))
          /\ todo' = Tail(todo)
          /\ IF cfg.dry_run THEN reqs' = reqs
             ELSE SavedNow(Head(todo)) /\ reqs' = reqs \cup {FrontendSaveOf(Head(todo))}
     /\ (run' = 2 /\ [run |-> 1, phase |-> "frontends"] \notin faulty')
          => SecondRunSaves' = {}]_vars

\* Both kinds of frontend were met: a second run has walked all frontends
\* after a first run that saved one and left one alone.
C18_Witness ==
  /\ run = 2
  /\ pc = "create_list"
  /\ ~cfg.dry_run
  /\ [run |-> 1, phase |-> "frontends"] \notin faulty
  /\ \E f \in FeIds : [FrontendSaveOf(f) EXCEPT !.run = 1] \in reqs
  /\ \E f \in FeIds : [FrontendSaveOf(f) EXCEPT !.run = 1] \notin reqs

(***************************************************************************)
(* C19: failures inside the group loop of the deduplicator.                 *)
(***************************************************************************)
SaveFailed == pc = "dedup" /\ budget' < budget /\ pc' # "done"

DeleteFailed == pc = "dedup_del" /\ budget' < budget

NextGroupTaken ==
  /\ todo' = Tail(todo)
  /\ pc' = IF Tail(todo) = <<>> THEN "health" ELSE "dedup"

SaveRequest(u) == Request("dedup", "chan_save", u, {})

DeleteRequest(u) == Request("dedup", "chan_delete", u, {})

SnapshotGroups ==
  LET gs == DedupGroups(grid, index.s2m, index.good)
  IN {Range(gs[i]) : i \in DOMAIN gs}

\* At the end of the phase every group has had its save, and a group with
\* one delete request has one for every member but the saved one; a group
\* without delete requests has kept all its channels.
GroupsAllProcessed ==
  (pc = "health" /\ ~cfg.dry_run) =>
    \A g \in SnapshotGroups :
      \E c \in g :
        /\ SaveRequest(c) \in reqs
        /\ DeleteRequest(c) \notin reqs
        /\ \/ \A u \in g \ {c} : DeleteRequest(u) \in reqs
           \/ \A u \in g : DeleteRequest(u) \notin reqs /\ u \in DOMAIN chan

\* C19: a failed save of the canonical channel leaves every channel of the
\* group in place and the loop takes the next group; a failed delete leaves
\* the delete loop running over the other members and the group loop over
\* the other groups.
C19_FailuresDoNotStopTheGroupLoop ==
  /\ []GroupsAllProcessed
  /\ [][/\ SaveFailed =>
             /\ chan' = chan
             /\ dels' = <<>>
             /\ NextGroupTaken
        /\ DeleteFailed =>
             /\ dels' = Tail(dels)
             /\ IF Tail(dels) = <<>> THEN NextGroupTaken
                ELSE pc' = "dedup_del" /\ todo' = todo
        /\ \A u \in DOMAIN chan \ DOMAIN chan' :
             pc = "dedup_del" /\ u = Head(dels) /\ u \in Range(Head(todo))]_vars

\* The phase has ended after a failed save in the first group (nothing of
\* it deleted) and, in the second, a failed delete of one member followed
\* by the delete of the other.
C19_Witness ==
  /\ pc = "health"
  /\ budget = 0
  /\ SaveRequest(1) \in reqs /\ DeleteRequest(2) \notin reqs
  /\ {1, 2} \subseteq DOMAIN chan
  /\ \E c \in {3, 4, 5} :
       /\ SaveRequest(c) \in reqs
       /\ \A u \in {3, 4, 5} \ {c} : DeleteRequest(u) \in reqs
       /\ Cardinality(DOMAIN chan \cap {3, 4, 5}) = 2

(***************************************************************************)
(* C20: the save of the canonical channel comes before every delete.        *)
(***************************************************************************)
Links(ch) == Range(ch.services)

\* The channels that made up a group of two or more before the phase.
Grouped == {c \in DOMAIN grid : GroupName(grid[c]) # <<>>
                                  /\ Cardinality(GroupOf(c, grid)) >= 2}

LinksOfGroup(c) == UNION {Links(grid[d]) : d \in GroupOf(c, grid)}

StillLinked(c, su) ==
  \E v \in DOMAIN chan : GroupNameAny(chan[v]) = GroupName(grid[c]) /\ su \in Links(chan[v])

NoLinkLost == \A c \in Grouped : \A su \in Links(grid[c]) : StillLinked(c, su)

\* C20: at every point of the phase every service that a member of a group
\* linked before the phase is linked from an existing channel of that name,
\* and a member is deleted only when another member of its group, which
\* stays, has been sent a save and holds every link of the group.
C20_SaveBeforeDeleteKeepsEveryLink ==
  /\ []NoLinkLost
  /\ [][\A u \in DOMAIN chan \ DOMAIN chan' :
          \E c \in GroupOf(u, grid) \ {u} :
            /\ c \in DOMAIN chan'
            /\ SaveRequest(c) \in reqs
            /\ LinksOfGroup(u) \subseteq Links(chan[c])]_vars

\* A member was deleted whose link the canonical channel did not have
\* before the phase and has now.
C20_Witness ==
  \E u \in DOMAIN grid \ DOMAIN chan :
    \E su \in Links(grid[u]) :
      \E c \in GroupOf(u, grid) \cap DOMAIN chan :
        su \in Links(chan[c]) /\ su \notin Links(grid[c])

(***************************************************************************)
(* C21: the first step of scan(), set_epg_grabbers_enabled(False).          *)
(***************************************************************************)
EpgFailed == pc = "epg" /\ budget' < budget

\* C21: whatever fails in the EPG step (the config load or the config save),
\* scan() goes on to resolve the network.
C21_EpgFailureIsNotFatal == [][EpgFailed => pc' = "resolve"]_vars

(***************************************************************************)
(* C22: how the poll loop ends.                                             *)
(***************************************************************************)
PollTurn == pc = "poll" /\ (pc' # "poll" \/ elapsed' # elapsed)

\* C22: a turn of the loop past the timeout returns False; any other turn
\* ends the loop in success when no mux of the network is pending or active
\* and sleeps otherwise; and the loop comes to one of these two ends.
C22_PollEndsSettledOrTimedOut ==
  /\ [][PollTurn =>
          IF elapsed > cfg.timeout THEN pc' = "done" /\ result' = "false"
          ELSE IF IsSettled(mux) THEN pc' = "orphans_list"
          ELSE pc' = "poll" /\ elapsed' = elapsed + 1]_vars
  /\ <>(pc = "orphans_list" \/ (pc = "done" /\ result = "false"))

(***************************************************************************)
(* C23: the wipe step.                                                      *)
(***************************************************************************)
OfTargetNetwork(m) == mux[m].net = "uuid"

GenericDelete(m) == Request("wipe", "mux_delete", m, {})

SpecificDelete(m) == Request("wipe", "mux_delete_fallback", m, {})

WipeCompleted == pc = "create_list" /\ cfg.wipe /\ "wipe" \in Range(phases)

CreateAsked(rf) ==
  \E r \in reqs : r.run = run /\ r.phase = "create" /\ r.kind = "mux_create" /\ r.id = rf

HasFrequency(rf) == RfToFreqHz(rf) # FreqError

RangeDone == pc = "force_list" /\ "create" \in Range(phases)

\* C24: the loop takes the RF numbers rf_start..rf_end in ascending order and
\* every turn, failed or not, hands over to the next number without ending
\* the run; a turn asks for a mux of its own number only, and does so when
\* the number has a frequency and nothing fails; at the end a number with a
\* frequency is without a create request only for a failure of its own.
C24_CreateGoesOverTheWholeRange ==
  /\ [](RangeDone =>
          /\ \A rf \in 0..MaxRf :
               CreateAsked(rf) => (rf \in cfg.rf_start..cfg.rf_end /\ HasFrequency(rf))
          /\ Cardinality({rf \in cfg.rf_start..cfg.rf_end :
                            HasFrequency(rf) /\ ~CreateAsked(rf)})
               <= (MaxFail + 1) - budget)
  /\ [][/\ (pc = "create_list") =>
             /\ Len(todo') = Cardinality(cfg.rf_start..cfg.rf_end)
             /\ \A i \in DOMAIN todo' : todo'[i] = cfg.rf_start + i - 1
        /\ (pc = "create") =>
             /\ todo' = Tail(todo)
             /\ pc' = IF Tail(todo) = <<>> THEN "force_list" ELSE "create"
             /\ result' = "none"
             /\ \A r \in reqs' \ reqs : r.kind = "mux_create" /\ r.id = Head(todo)
             /\ (budget' = budget) => ((reqs' # reqs) <=> HasFrequency(Head(todo)))]_vars

\* The range 35..37 is done: the create for 35 was asked and refused, and
\* the one for 36 made a mux all the same.
C24_Witness ==
  /\ RangeDone
  /\ cfg.rf_start = 35
  /\ budget = MaxFail
  /\ CreateAsked(35) /\ CreateAsked(36)
  /\ ~\E m \in DOMAIN mux : mux[m].freq = RfToFreqHz(35)
  /\ \E m \in DOMAIN mux : mux[m].freq = RfToFreqHz(36)

(***************************************************************************)
(* C27: the conf of a mux create.                                           *)
(***************************************************************************)
\* C27: every mux create carries enabled and frequency, and carries
\* modulation and scan_state only when the mux class declares the property.
C27_ConfFollowsTheSchema ==
  \A r \in reqs :
    r.kind = "mux_create" =>
      /\ {"enabled", "frequency"} \subseteq r.conf
      /\ \A f \in {"modulation", "scan_state"} : f \in r.conf => f \in schema

(***************************************************************************)
(* C25: delete_orphan_channels and cleanup_unnamed_channels.                *)
(***************************************************************************)
Unnamed(ch) == Strip(ch.name) = <<>> \/ \E n \in cfg.unnamed : Strip(ch.name) = Strip(n)

UnnamedChannel == \E c \in DOMAIN chan : Unnamed(chan[c])

OrphanPassDone == pc = "disable_list" /\ "orphans" \in Range(phases)

PlaceholderPassDone == pc = "dedup_list" /\ "clean" \in Range(phases)

EveryDeleteSucceeded ==
  \A r \in reqs : r.kind = "chan_delete" => r.id \notin DOMAIN chan

\* Neither pass deletes anything but its debris, nor changes what it keeps.
OnlyDebrisDeleted ==
  \A c \in DOMAIN chan :
    IF c \in DOMAIN chan' THEN chan'[c] = chan[c]
    ELSE \/ pc = "orphans" /\ chan[c].services = <<>>
         \/ pc = "clean" /\ Unnamed(chan[c])

\* C25 as stated: after either pass with every delete succeeding none of its
\* debris exists, and neither pass deletes anything else.
C25_CleanerDeletesExactlyTheDebris ==
  /\ []((OrphanPassDone /\ EveryDeleteSucceeded) => ~EmptyChannel)
  /\ []((PlaceholderPassDone /\ EveryDeleteSucceeded) => ~UnnamedChannel)
  /\ [][OnlyDebrisDeleted]_vars

\* C25 as amended: after delete_orphan_channels with dry_run off, and after
\* cleanup_unnamed_channels, when the pass has read the channel grid and
\* every delete succeeded, none of its debris exists; neither pass deletes
\* anything else.
C25_CleanerDeletesExactlyTheDebrisItLists ==
  /\ []((OrphanPassDone /\ ~cfg.dry_run /\ budget = MaxFail) => ~EmptyChannel)
  /\ []((PlaceholderPassDone /\ budget = MaxFail) => ~UnnamedChannel)
  /\ [][OnlyDebrisDeleted]_vars

\* The placeholder pass is over: it deleted a channel for its marker name
\* and another for its blank name, and kept a named channel without
\* services.
C25_Witness ==
  /\ PlaceholderPassDone /\ budget = MaxFail
  /\ Cardinality({r \in reqs : r.kind = "chan_delete"}) = 2
  /\ \E c \in DOMAIN chan : chan[c].services = <<>>

(***************************************************************************)
(* C26: the hardware-tree walk.                                             *)
(***************************************************************************)
WalkEnded == walk.stack = <<>> \/ walk.raised

FetchedOnce ==
  \A i \in DOMAIN walk.fetched, j \in DOMAIN walk.fetched :
    walk.fetched[i] = walk.fetched[j] => i = j

\* C26: the walk comes to an end on every tree, and no node id is asked for
\* its children twice.
C26_WalkTerminatesAndFetchesOnce == []FetchedOnce /\ <>WalkEnded

\* A walk has ended over a tree in which the root lists itself and a node
\* twice: both were read once.
C26_Witness ==
  /\ walk.stack = <<>> /\ ~walk.raised
  /\ \E n \in NodeIds \ {0} :
       /\ walk.tree[0] = <<[id |-> n, inner |-> TRUE], [id |-> n, inner |-> TRUE]>>
       /\ [id |-> 0, inner |-> TRUE] \in Range(walk.tree[n])
       /\ walk.fetched = <<0, n>>

(***************************************************************************)
(* C28: what the deduplicator leaves alone.                                 *)
(***************************************************************************)
AloneUnderItsName(c) ==
  \A d \in DOMAIN chan \ {c} : Strip(chan[d].name) # Strip(chan[c].name)

\* C28: no step of the deduplicator changes or deletes a channel whose
\* trimmed name is blank or a configured placeholder name, or a channel that
\* is the only one of its name.
C28_DedupLeavesUnnamedAndSingleAlone ==
  [][\A c \in DOMAIN chan :
       (Unnamed(chan[c]) \/ AloneUnderItsName(c)) =>
         (c \in DOMAIN chan' /\ chan'[c] = chan[c])]_vars

(***************************************************************************)
(* C29: the tie-break of the deduplicator                                  *)
(***************************************************************************)
GoodServices(c) == GoodServiceCount(grid[c], index.s2m, index.good)

\* c does not come after d under the order: good-service count descending,
\* enabled first, (major, minor) ascending, total service count descending.
NotAfter(c, d) ==
  \/ GoodServices(c) > GoodServices(d)
  \/ /\ GoodServices(c) = GoodServices(d)
     /\ \/ grid[c].enabled /\ ~grid[d].enabled
        \/ /\ grid[c].enabled = grid[d].enabled
           /\ \/ Major(grid[c]) < Major(grid[d])
              \/ /\ Major(grid[c]) = Major(grid[d])
                 /\ \/ Minor(grid[c]) < Minor(grid[d])
                    \/ /\ Minor(grid[c]) = Minor(grid[d])
                       /\ Len(grid[c].services) >= Len(grid[d].services)

\* The channels the step has sent a save for.
SavedByStep == {r.id : r \in reqs' \ reqs}

\* C29: in every step that takes a group up to its save, the first and the
\* second member of the group are the first- and second-ranked under the
\* order; when their good-service counts are equal and dry_run is off, two
\* probes are made and the save goes to the second-ranked member if and only
\* if it streams and the first-ranked does not, to the first-ranked
\* otherwise; when the counts differ no probe is made and the save (made
\* when dry_run is off) goes to the first-ranked member.
C29_TieBreakProbesTheTwoBest ==
  [][(pc = "dedup" /\ pc' # "done") =>
       LET g == Head(todo)
           a == g[1]
           b == g[2]
           tie == GoodServices(a) = GoodServices(b)
       IN /\ \A d \in Range(g) : NotAfter(a, d)
          /\ \A d \in Range(g) \ {a} : NotAfter(b, d)
          /\ (tie /\ ~cfg.dry_run) =>
               /\ Len(index'.probes) = 2
               /\ SavedByStep
                    = {IF index'.probes[2] /\ ~index'.probes[1] THEN b ELSE a}
          /\ ~tie =>
               /\ index'.probes = <<>>
               /\ ~cfg.dry_run => SavedByStep = {a}]_vars

\* The second-ranked member streamed, the first-ranked did not, and the
\* save went to the second-ranked.
C29_Witness ==
  /\ pc = "dedup_del"
  /\ index.probes = <<FALSE, TRUE>>
  /\ SaveRequest(Head(todo)[2]) \in reqs
  /\ SaveRequest(Head(todo)[1]) \notin reqs


(***************************************************************************)
(* C30: the service list saved onto the canonical channel                  *)
(***************************************************************************)
\* The places a service is listed at in the group: <<k, p>> for the p-th
\* link of the k-th member.
ListedAt(su, g) ==
  {x \in (1..Len(g)) \X (1..(MaxSvc + 1)) :
     /\ x[2] <= Len(grid[g[x[1]]].services)
     /\ grid[g[x[1]]].services[x[2]] = su}

Earlier(x, y) == x[1] < y[1] \/ (x[1] = y[1] /\ x[2] < y[2])

FirstSeen(su, g) ==
  CHOOSE x \in ListedAt(su, g) : \A y \in ListedAt(su, g) \ {x} : Earlier(x, y)

\* A save of the canonical channel that took effect.
GroupSaved == pc = "dedup" /\ ~cfg.dry_run /\ budget' = budget

\* C30: when the save of a group's canonical channel takes effect, the
\* channel's service list holds every service of every member of the group
\* and nothing else, each exactly once, in the order in which the services
\* are first seen going over the members in score order.
C30_SavedListIsTheOrderedUnion ==
  [][GroupSaved =>
       \A c \in SavedByStep :
         LET g == Head(todo)
             list == chan'[c].services
         IN /\ \A i, j \in DOMAIN list : list[i] = list[j] => i = j
            /\ Range(list) = UNION {Range(grid[d].services) : d \in Range(g)}
            /\ \A i, j \in DOMAIN list :
                 i < j => Earlier(FirstSeen(list[i], g), FirstSeen(list[j], g))]_vars

\* A saved list of two services that two members of the group shared and
\* that the canonical channel itself listed only one of.
C30_Witness ==
  /\ pc = "dedup_del"
  /\ \E c \in DOMAIN chan : \E d \in Range(dels) :
       /\ SaveRequest(c) \in reqs
       /\ Len(chan[c].services) = 2
       /\ Len(grid[c].services) = 1
       /\ Range(grid[d].services) \cap Range(grid[c].services) # {}
       /\ Range(grid[d].services) \ Range(grid[c].services) # {}


(***************************************************************************)
(* C31: what the pruner sends for one channel                              *)
(***************************************************************************)
ValidLink(su) == ServiceIsAcceptable(su, svc, index)

ValidLinks(list) == SelectSeq(list, ValidLink)

PruneSave(c) == Request("prune", "chan_save", c, {})

PruneDelete(c) == Request("prune", "chan_delete", c, {})

\* What the pruner sends, and what a request that takes effect leaves, for
\* a channel it has gone through without an exception.
PruneSendsByValidity ==
  LET c == Head(todo)
      links == grid[c].services
      valid == ValidLinks(links)
  IN IF valid = links
     THEN reqs' = reqs /\ chan' = chan
     ELSE IF valid # <<>>
     THEN /\ reqs' = reqs \cup {PruneSave(c)}
          /\ PruneSave(c) \notin reqs
          /\ (budget' = budget) =>
               chan' = [chan EXCEPT ![c].services = valid]
     ELSE /\ reqs' = reqs \cup {PruneDelete(c)}
          /\ PruneDelete(c) \notin reqs
          /\ (budget' = budget) =>
               (c \notin DOMAIN chan' /\ \A d \in DOMAIN chan' : chan'[d] = chan[d])

PruneTurn == pc = "prune" /\ pc' # "done"

\* C31 as stated: a turn of the pruner sends nothing for a channel whose
\* links are all valid; for a channel with valid and invalid links it sends
\* one save, of the valid links in their order, and no delete; for a channel
\* whose links are all invalid it sends one delete and no save.
C31_PrunerSendsByValidity == [][PruneTurn => PruneSendsByValidity]_vars

\* C31 as amended: the same, with dry_run off.
C31_PrunerSendsByValidityWithoutDryRun ==
  [][(PruneTurn /\ ~cfg.dry_run) => PruneSendsByValidity]_vars

\* One channel was saved with fewer links than it had, another deleted.
C31_Witness ==
  /\ pc = "finish"
  /\ \E c \in DOMAIN chan :
       /\ PruneSave(c) \in reqs
       /\ chan[c].services # <<>>
       /\ Len(chan[c].services) < Len(grid[c].services)
  /\ \E d \in DOMAIN grid \ DOMAIN chan : PruneDelete(d) \in reqs


(***************************************************************************)
(* C32: disable_failed_muxes                                               *)
(***************************************************************************)
ScanFailed(m) == mux[m].scan_result \in {"i2", "sFAIL"}

MuxSave(m) == Request("disable", "mux_save", m, {})

DisableCompleted == "disable" \in Range(phases) /\ pc \notin {"disable", "done"}

NoEnabledFailedMux ==
  \A m \in DOMAIN mux :
    mux[m].net \in {"uuid", "name"} => ~(mux[m].enabled /\ ScanFailed(m))

\* A turn writes to the mux of the turn only, which is enabled and failed,
\* and all it changes is the enabled flag; no mux is deleted.
DisableWritesOnlyFailed ==
  [][(pc = "disable") =>
       /\ DOMAIN mux' = DOMAIN mux
       /\ reqs' \subseteq reqs \cup {MuxSave(Head(todo))}
       /\ mux[Head(todo)].enabled /\ ScanFailed(Head(todo))
       /\ \A m \in DOMAIN mux :
            mux'[m] # mux[m] =>
              /\ m = Head(todo)
              /\ mux'[m] = [mux[m] EXCEPT !.enabled = FALSE]]_vars

Referenced(su) == \E c \in DOMAIN chan : su \in Range(chan[c].services)

ChannelCreate(su) == Request("reconcile", "chan_create", su, {})

\* Every create that was sent has left its channel.
EveryCreateSucceeded ==
  \A su \in DOMAIN svc :
    ChannelCreate(su) \in reqs => \E c \in DOMAIN chan : chan[c].services = <<su>>

EveryNamedServiceReferenced ==
  \A su \in DOMAIN svc : ~Nameless(svc[su]) => Referenced(su)

\* The phase takes each service that no channel references once, and a
\* turn that nothing fails in creates one channel, holding the service of
\* the turn, when the service is named and the backend has room for it.
OneChannelPerUnreferencedService ==
  [][/\ (pc = "reconcile_list" /\ budget' = budget) =>
          /\ Range(todo') = {su \in DOMAIN svc : ~Referenced(su)}
          /\ \A i, j \in DOMAIN todo' : todo'[i] = todo'[j] => i = j
     /\ (pc = "reconcile") =>
          /\ result' # "raised" => todo' = Tail(todo)
          /\ \A c \in DOMAIN chan' \ DOMAIN chan : chan'[c].services = <<Head(todo)>>
          /\ Cardinality(DOMAIN chan' \ DOMAIN chan) <= 1
          /\ (/\ budget' = budget /\ DOMAIN chan # ChanIds
              /\ ~cfg.dry_run /\ ~Nameless(svc[Head(todo)])) =>
               Cardinality(DOMAIN chan' \ DOMAIN chan) = 1]_vars

\* C33 as stated: after the phase, every create having succeeded, every
\* named service is referenced by a channel, and one channel was created
\* for each service that was named and unreferenced when the phase began.
C33_EveryNamedServiceGetsAChannel ==
  /\ []((ReconcileCompleted /\ EveryCreateSucceeded) => EveryNamedServiceReferenced)
  /\ OneChannelPerUnreferencedService

\* C33 as amended: the same, with dry_run off and no request of the phase
\* failing.
C33_EveryNamedServiceGetsAChannelWhenNothingFails ==
  /\ []((ReconcileCompleted /\ ~cfg.dry_run /\ ThisRun("reconcile") \notin faulty)
          => EveryNamedServiceReferenced)
  /\ OneChannelPerUnreferencedService

\* The phase has created a channel for one service and found another
\* referenced already.
C33_Witness ==
  /\ ReconcileCompleted /\ ~cfg.dry_run /\ budget = MaxFail
  /\ \E su \in DOMAIN svc :
       ChannelCreate(su) \in reqs /\ \E c \in DOMAIN chan : chan[c] = NewChannel(BestName(svc[su]), su)
  /\ \E su \in DOMAIN svc : ChannelCreate(su) \notin reqs /\ Referenced(su)


(***************************************************************************)
(* C34: the canonical channel has the most good services                   *)
(***************************************************************************)
\* C34: in every step that takes a group up to its save, the channel the
\* save goes to has at least as many good services as every member of the
\* group, whatever the probes answered; it is the first member, or the
\* second when the two have the same number of good services.
C34_CanonicalHasTheMostGoodServices ==
  [][(pc = "dedup") =>
       \A c \in SavedByStep :
         LET g == Head(todo)
         IN /\ \A d \in Range(g) : GoodServices(c) >= GoodServices(d)
            /\ \/ c = g[1]
               \/ c = g[2] /\ GoodServices(g[1]) = GoodServices(g[2])]_vars

\* The probes moved the save to the second member of a group whose third
\* member has fewer good services.
C34_Witness ==
  /\ pc = "dedup_del"
  /\ index.probes = <<FALSE, TRUE>>
  /\ Len(Head(todo)) = 3
  /\ SaveRequest(Head(todo)[2]) \in reqs
  /\ GoodServices(Head(todo)[3]) < GoodServices(Head(todo)[2])


(***************************************************************************)
(* C35: one network test for every step                                    *)
(***************************************************************************)
\* The muxes the wipe, the force-scan and the poller take for the network.
ListedForNetwork == Range(ListMuxesForNetwork(mux))

\* The muxes the health classifier and the pruner take for the network.
ClassifiedForNetwork == DOMAIN GetMuxIndex(mux)

PollConverges == pc = "poll" /\ pc' = "orphans_list"

\* C35: at every moment the two sets are the same, and the poll loop ends
\* in success only when no mux the classifier takes for the network is
\* pending or active.
C35_OneNetworkTestEverywhere ==
  /\ [](ListedForNetwork = ClassifiedForNetwork)
  /\ [][PollConverges =>
          \A m \in ClassifiedForNetwork : ~InProgress(mux[m])]_vars


(***************************************************************************)
(* C36: the pruner and the classifier agree on a mux record                *)
(***************************************************************************)
Foreign(su) == svc[su].net \notin {"absent", "uuid", "name"}

\* C36: for every service without a foreign network reference, the
\* classifier has the service's mux among the good muxes exactly when
\* service_is_acceptable accepts the service; and the pruner's turn for a
\* channel whose one link is to such a service keeps the channel exactly
\* when _mux_is_ok holds of the mux record.
C36_PrunerAgreesWithClassifier ==
  /\ [](Classified =>
          \A su \in DOMAIN svc :
            ~Foreign(su) =>
              ((svc[su].mux \in index.good)
                 <=> ServiceIsAcceptable(su, svc, GetMuxIndex(mux))))
  /\ [][(/\ pc = "prune" /\ budget' = budget /\ ~cfg.dry_run
         /\ ~Foreign(grid[Head(todo)].services[1])) =>
          ((Head(todo) \in DOMAIN chan')
             <=> MuxIsOk(mux[svc[grid[Head(todo)].services[1]].mux]))]_vars

\* The pruner deleted the channel of an enabled mux whose scan_result is
\* false and kept that of a mux whose scan_result is "Ok".
C36_Witness ==
  /\ pc = "finish" /\ ~cfg.dry_run
  /\ 1 \notin DOMAIN chan /\ mux[1].enabled /\ mux[1].scan_result = "bFalse"
  /\ 2 \in DOMAIN chan /\ mux[2].scan_result = "sOk" /\ ~Foreign(2)


(***************************************************************************)
(* C37: the map_services_to_channels toggle                                *)
(***************************************************************************)
\* C37: with map_services_to_channels off the reconciliation phase is not
\* entered and no channel create is sent.
C37_NoMappingWhenTheToggleIsOff ==
  ~cfg.map_services =>
    /\ "reconcile" \notin Range(phases)
    /\ ~Sent("reconcile", "chan_create")



\* A tune starts with a load by _fire_tune or by reload; RunStart is the
\* index of the start that the i-th load belongs to.
RunStart(l, i) ==
  LET before == {j \in 1..i : l[j].by # "retry"}
  IN IF before = {} THEN 0 ELSE CHOOSE j \in before : \A k \in before : k <= j

RetriesPaced(t) ==
  \A i \in 1..Len(t.loads) :
    t.loads[i].by = "retry" =>
      /\ i > 1
      /\ RunStart(t.loads, i) > 0
      /\ t.loads[i].url = t.loads[i - 1].url
      /\ t.loads[i].at - t.loads[i - 1].at > t.tune_timeout_s
      /\ i - RunStart(t.loads, i) <= t.max_retries

PlayingOnlyByLateFrame ==
  (tuner.state # "PLAYING" /\ tuner'.state = "PLAYING") =>
    /\ tuner.state = "TUNING"
    /\ tuner.loads # <<>>
    /\ tuner'.loads = tuner.loads
    /\ \E queued \in BOOLEAN : TickWith(TRUE, queued)
    /\ \A queued \in BOOLEAN : ~TickWith(FALSE, queued)
    /\ tuner.now - tuner.loads[RunStart(tuner.loads, Len(tuner.loads))].at
         > tuner.frame_grace_s

FailedOnlyAfterTheRetries ==
  (tuner.state # "FAILED" /\ tuner'.state = "FAILED") =>
    /\ tuner.state = "TUNING"
    /\ tuner'.loads = tuner.loads
    /\ tuner.current_url # "" =>
         /\ Len(tuner.loads) - RunStart(tuner.loads, Len(tuner.loads)) = tuner.max_retries
         /\ tuner.now - tuner.loads[Len(tuner.loads)].at > tuner.tune_timeout_s

FailedStaysFailed ==
  (tuner.state = "FAILED" /\ tuner'.state # "FAILED") =>
    \/ Cancel
    \/ /\ Len(tuner'.loads) > Len(tuner.loads)
       /\ tuner'.loads[Len(tuner.loads) + 1].by # "retry"

\* C38: a tune becomes PLAYING only on a tick with a frame later than
\* frame_grace_s after it started; without one the url is reloaded once per
\* elapsed tune_timeout_s, at most max_retries times, then the state is
\* FAILED until a new tune, a reload or a cancel: 1 + max_retries loads.
C38_TuneRetriesThenFails ==
  /\ []RetriesPaced(tuner)
  /\ [][PlayingOnlyByLateFrame /\ FailedOnlyAfterTheRetries /\ FailedStaysFailed]_vars

C38_Witness ==
  /\ tuner.state = "PLAYING"
  /\ tuner.frame_grace_s = 1
  /\ Len(tuner.loads) = 3
  /\ tuner.loads[2].by = "retry" /\ tuner.loads[3].by = "retry"

C38_WitnessFailed ==
  /\ tuner.state = "FAILED"
  /\ tuner.max_retries = 2
  /\ Len(tuner.loads) = 3


\* The loads of _fire_tune that a step adds, and those at or after a time.
NewTunes ==
  {i \in (Len(tuner.loads) + 1)..Len(tuner'.loads) : tuner'.loads[i].by = "tune"}

TunesSince(t, time) ==
  {i \in 1..Len(t.loads) : t.loads[i].by = "tune" /\ t.loads[i].at >= time}

\* A tune starts only on a tick, at or after the deadline, with the url
\* that is pending, once.
TuneOnlyAtTheDeadline ==
  NewTunes # {} =>
    /\ \E frame \in BOOLEAN, queued \in BOOLEAN : TickWith(frame, queued)
    /\ tuner.pending_url # "" /\ tuner'.pending_url = ""
    /\ tuner.now >= tuner.deadline
    /\ \E i \in NewTunes :
         /\ NewTunes = {i}
         /\ tuner'.loads[i].url = tuner.pending_url
         /\ tuner'.loads[i].at = tuner.now

\* The first tick at or after the deadline starts it; one before does not.
TickAtTheDeadlineTunes ==
  \A frame \in BOOLEAN, queued \in BOOLEAN :
    (TickWith(frame, queued) /\ tuner.pending_url # "") =>
      IF tuner.now >= tuner.deadline
      THEN NewTunes # {}
      ELSE /\ NewTunes = {}
           /\ tuner'.pending_url = tuner.pending_url
           /\ tuner'.deadline = tuner.deadline

\* request_tune loads nothing and moves the deadline.
RequestOnlyMovesTheDeadline ==
  (tuner'.pending_url # "" /\ tuner'.deadline > 0
     /\ <<tuner'.pending_url, tuner'.deadline>> # <<tuner.pending_url, tuner.deadline>>) =>
    /\ tuner'.loads = tuner.loads
    /\ tuner'.deadline = tuner.now + tuner.debounce_s
    /\ tuner'.pending_url \in tuner'.asked

\* After a burst of request_tune calls nothing is tuned before the deadline
\* of the last call, and one url, the last call's, from then on.
BurstTunesItsLastUrlOnce ==
  tuner.asked # {} =>
    /\ TunesSince(tuner, tuner.deadline - tuner.debounce_s + 1)
         = TunesSince(tuner, tuner.deadline)
    /\ IF tuner.pending_url # ""
       THEN TunesSince(tuner, tuner.deadline) = {}
       ELSE \E i \in 1..Len(tuner.loads) :
              /\ TunesSince(tuner, tuner.deadline) = {i}
              /\ tuner.loads[i].url = tuner.current_url
              /\ tuner.current_url \in tuner.asked

ActsOnlyOnALastingBadCondition ==
  dog.acted =>
    /\ dog.seen \in {"stuck", "missing"}
    /\ dog.streak # -1
    /\ dog.now - dog.streak >= (IF dog.seen = "missing" THEN dog.grace ELSE StuckGrace)
    /\ dog.fixed_at = dog.now
    /\ dog.prev_fix # -1 => dog.now - dog.prev_fix >= RateLimit

HealthyOrIdleResets ==
  dog.seen \in {"healthy", "idle"} => (~dog.acted /\ dog.bad_since = -1 /\ dog.streak = -1)

\* C40: check_and_fix acts only when a stuck subscription, or a missing one
\* that is expected, has been observed on consecutive calls for 2.0 s or
\* missing_grace_s, never within 1.0 s of its last action; a call that sees
\* a healthy subscription, or none with none expected, resets the timer and
\* does not act.
C40_WatchdogActsOnlyAfterTheGrace == ActsOnlyOnALastingBadCondition /\ HealthyOrIdleResets

C40_Witness ==
  /\ dog.acted
  /\ dog.seen = "stuck"
  /\ dog.prev_fix # -1
  /\ dog.now - dog.streak > StuckGrace

====
